---- MODULE Spec2Model ----
(***************************************************************************)
(* A model of the rhai scripting engine (gmorenz/rhai): the variable       *)
(* Scope, function dispatch, the tree-walking evaluator with its dot/index *)
(* chain resolution, and the AST optimizer.  Rust functions are translated *)
(* to operators of the same name; the host-facing operations of Scope and  *)
(* Engine are the actions.                                                 *)
(***************************************************************************)
EXTENDS Integers, Sequences, FiniteSets, Bags, TLC

VARIABLES scope, engine, ast, last

vars == <<scope, engine, ast, last>>

(***************************************************************************)
(* Bounds of the model.                                                    *)
(***************************************************************************)
\* Largest number of entries the host pushes into a Scope.
MaxScopeLen == 3

(***************************************************************************)
(* Dynamic values (crate::any::Dynamic).  One record shape per tag.        *)
(***************************************************************************)
VUnit == [t |-> "()"]
VInt(n) == [t |-> "i64", i |-> n]
VBool(b) == [t |-> "bool", b |-> b]
VChar(c) == [t |-> "char", c |-> c]
\* A string is the sequence of its characters.
VStr(s) == [t |-> "string", s |-> s]
VArr(a) == [t |-> "array", a |-> a]
VMap(m) == [t |-> "map", m |-> m]
\* An opaque host value: its type name and its fields.
VObj(ty, f) == [t |-> ty, f |-> f]

Some(x) == <<x>>
None == <<>>
IsSome(o) == o # <<>>

Min(a, b) == IF a < b THEN a ELSE b

(***************************************************************************)
(* Expressions the scope keeps for constants (parser::map_dynamic_to_expr, *)
(* whose source is outside this tree): the literal of a recognised value.  *)
(***************************************************************************)
\* The keys of a map in some order, each once.
KeysOf(m) ==
    CHOOSE keys \in [1..Cardinality(DOMAIN m) -> DOMAIN m] :
        \A key \in DOMAIN m : \E j \in DOMAIN keys : keys[j] = key
RECURSIVE map_dynamic_to_expr(_)
map_dynamic_to_expr(v) ==
    CASE v.t = "()" -> Some([k |-> "Unit"])
      [] v.t = "i64" -> Some([k |-> "IntegerConstant", i |-> v.i])
      [] v.t = "bool" -> Some(IF v.b THEN [k |-> "True"] ELSE [k |-> "False"])
      [] v.t = "char" -> Some([k |-> "CharConstant", c |-> v.c])
      [] v.t = "string" -> Some([k |-> "StringConstant", s |-> v.s])
      [] v.t = "array" ->
            IF \A j \in 1..Len(v.a) : IsSome(map_dynamic_to_expr(v.a[j]))
            THEN Some([k |-> "Array",
                       items |-> [j \in 1..Len(v.a) |-> map_dynamic_to_expr(v.a[j])[1]]])
            ELSE None
      [] v.t = "map" ->
            IF \A key \in DOMAIN v.m : IsSome(map_dynamic_to_expr(v.m[key]))
            THEN Some([k |-> "Map",
                       items |-> [j \in 1..Cardinality(DOMAIN v.m) |->
                                     [key |-> KeysOf(v.m)[j],
                                      expr |-> map_dynamic_to_expr(v.m[KeysOf(v.m)[j]])[1]]]])
            ELSE None
      [] OTHER -> None

(***************************************************************************)
(* scope.rs                                                                *)
(***************************************************************************)
Normal == "Normal"
Constant == "Constant"

\* Scope::push_dynamic_value
push_dynamic_value(s, name, entry_type, value, map_expr) ==
    Append(s, [name |-> name, typ |-> entry_type, value |-> value,
               expr |-> IF map_expr THEN map_dynamic_to_expr(value) ELSE None])

\* Scope::push
push(s, name, value) == push_dynamic_value(s, name, Normal, value, FALSE)

\* Scope::push_constant
push_constant(s, name, value) == push_dynamic_value(s, name, Constant, value, TRUE)

\* A rewind that removes nothing.
rewind_none(s, size) == s
\* A rewind that pops one entry instead of truncating to size.
rewind_pops_one(s, size) == IF Len(s) > 0 THEN SubSeq(s, 1, Len(s) - 1) ELSE s

\* Scope::rewind: Vec::truncate keeps the first size entries and does
\* nothing when size is not below the length.
rewind(s, size) == IF size < Len(s) THEN SubSeq(s, 1, size) ELSE s

\* A search from the head of the Vec: the oldest entry of that name.
get_oldest(s, name) ==
    LET hits == {j \in 1..Len(s) : s[j].name = name}
    IN  IF hits = {} THEN None
        ELSE LET j == CHOOSE j \in hits : \A h \in hits : j <= h
             IN  Some([index |-> j - 1, typ |-> s[j].typ])

\* Scope::get: the index (0-based) and type of the newest entry of that name.
get(s, name) ==
    LET hits == {j \in 1..Len(s) : s[j].name = name}
    IN  IF hits = {} THEN None
        ELSE LET j == CHOOSE j \in hits : \A h \in hits : h <= j
             IN  Some([index |-> j - 1, typ |-> s[j].typ])

\* Scope::contains
contains(s, name) == \E j \in 1..Len(s) : s[j].name = name

\* Scope::get_value
get_value(s, name) ==
    LET g == get(s, name) IN IF IsSome(g) THEN Some(s[g[1].index + 1].value) ELSE None

(***************************************************************************)
(* Results (Result<Dynamic, Box<EvalAltResult>>).  A panic of the Rust     *)
(* code (unimplemented!, expect, unreachable!) is a result of its own: it  *)
(* unwinds through every caller and none of them runs its clean-up.        *)
(***************************************************************************)
Ok(v) == [ok |-> TRUE, v |-> v]
Err(e) == [ok |-> FALSE, e |-> e]
Panic(msg) == Err([err |-> "panic", info |-> <<msg>>])
IsPanic(r) == ~r.ok /\ r.e.err = "panic"
\* The loop budget of the model ran out: the script does not terminate here.
Diverges == Panic("diverges")

\* EvalAltResult: the kind of error and what it carries (positions left out).
\* "Return" carries the returned value, "ErrorLoopBreak" whether it is a break.
EvalAltResult(err, info) == [err |-> err, info |-> info]

(***************************************************************************)
(* engine.rs: constants and names.                                         *)
(***************************************************************************)
\* The debug build's default of max_call_stack_depth.
MAX_CALL_STACK_DEPTH == 28

KEYWORD_PRINT == "print"
KEYWORD_DEBUG == "debug"
KEYWORD_TYPE_OF == "type_of"
KEYWORD_EVAL == "eval"
FUNC_INDEXER == "$index$"

\* The property names the model's scripts use.
PropIds == {"p", "q", "k", "j"}
\* make_getter, make_setter, make_mut_getter: format!("{}{}", PREFIX, id).
GetterNames == [p |-> "get$p", q |-> "get$q", k |-> "get$k", j |-> "get$j"]
SetterNames == [p |-> "set$p", q |-> "set$q", k |-> "set$k", j |-> "set$j"]
MutGetterNames == [p |-> "mut_get$p", q |-> "mut_get$q", k |-> "mut_get$k", j |-> "mut_get$j"]
make_getter(id) == GetterNames[id]
make_setter(id) == SetterNames[id]
make_mut_getter(id) == MutGetterNames[id]
\* extract_prop_from_getter / extract_prop_from_setter: the name starts with the prefix.
extract_prop_from_getter(fn_name) ==
    IF \E id \in PropIds : GetterNames[id] = fn_name
    THEN Some(CHOOSE id \in PropIds : GetterNames[id] = fn_name) ELSE None
extract_prop_from_setter(fn_name) ==
    IF \E id \in PropIds : SetterNames[id] = fn_name
    THEN Some(CHOOSE id \in PropIds : SetterNames[id] = fn_name) ELSE None

\* calc_fn_hash(name, type ids) and calc_fn_def(name, arity): digests assumed free
\* of collisions, so a key is the pair itself.
calc_fn_hash(fn_name, types) == <<fn_name, types>>
calc_fn_def(fn_name, params) == <<fn_name, params>>

\* The characters of each type name (String::from(&str)).
Spell(name) ==
    CASE name = "()" -> <<"(", ")">>
      [] name = "i64" -> <<"i", "6", "4">>
      [] name = "bool" -> <<"b", "o", "o", "l">>
      [] name = "char" -> <<"c", "h", "a", "r">>
      [] name = "string" -> <<"s", "t", "r", "i", "n", "g">>
      [] name = "array" -> <<"a", "r", "r", "a", "y">>
      [] name = "map" -> <<"m", "a", "p">>
      [] name = "Outer" -> <<"O", "u", "t", "e", "r">>
      [] name = "Inner" -> <<"I", "n", "n", "e", "r">>

\* Dynamic::type_id / type_name of each argument.
TypesOf(args) == [j \in 1..Len(args) |-> args[j].t]

\* A function table (HashMap<u64, Box<FnAny>>): a set of [key, fn] with one entry a key.
TableGet(tbl, key) ==
    IF \E e \in tbl : e.key = key THEN Some((CHOOSE e \in tbl : e.key = key).fn) ELSE None
\* HashMap::insert: a later registration under the same key replaces the earlier one.
TableInsert(tbl, key, fn) == {e \in tbl : e.key # key} \cup {[key |-> key, fn |-> fn]}
contains_key(tbl, key) == \E e \in tbl : e.key = key

\* FunctionsLib::get_function / has_function
get_function(fn_lib, name, params) ==
    IF \E d \in fn_lib : calc_fn_def(d.name, Len(d.params)) = calc_fn_def(name, params)
    THEN Some(CHOOSE d \in fn_lib : calc_fn_def(d.name, Len(d.params)) = calc_fn_def(name, params))
    ELSE None
has_function(fn_lib, name, params) == IsSome(get_function(fn_lib, name, params))

\* Engine::map_type_name: the pretty name of a registered type, else the name itself.
map_type_name(self, name) ==
    IF \E e \in self.type_names : e.key = name
    THEN (CHOOSE e \in self.type_names : e.key = name).fn ELSE name

(***************************************************************************)
(* Target: a mutable pointer into a value.  The pointer is kept as the     *)
(* value it points into (root), the path from the root to the pointee, and *)
(* whether the pointee is a Dynamic (dyn) or a typed field of a host       *)
(* object handed out by a mutable getter or indexer.                       *)
(***************************************************************************)
StepIdx(i) == [s |-> "idx", i |-> i]
StepKey(key) == [s |-> "key", key |-> key]
StepField(key) == [s |-> "field", key |-> key]

Tail1(q) == SubSeq(q, 2, Len(q))

RECURSIVE GetAt(_, _)
GetAt(root, path) ==
    IF path = <<>> THEN root
    ELSE LET st == path[1]
         IN CASE st.s = "idx" -> GetAt(root.a[st.i + 1], Tail1(path))
              [] st.s = "key" -> GetAt(root.m[st.key], Tail1(path))
              [] st.s = "field" -> GetAt(root.f[st.key], Tail1(path))

RECURSIVE SetAt(_, _, _)
SetAt(root, path, new) ==
    IF path = <<>> THEN new
    ELSE LET st == path[1]
         IN CASE st.s = "idx" ->
                   [root EXCEPT !.a[st.i + 1] = SetAt(root.a[st.i + 1], Tail1(path), new)]
              [] st.s = "key" ->
                   [root EXCEPT !.m[st.key] = SetAt(root.m[st.key], Tail1(path), new)]
              [] st.s = "field" ->
                   [root EXCEPT !.f[st.key] = SetAt(root.f[st.key], Tail1(path), new)]

Target(root, path, dyn) == [root |-> root, path |-> path, dyn |-> dyn]
TargetFromDynamic(v) == Target(v, <<>>, TRUE)
Pointee(target) == GetAt(target.root, target.path)
is_map(target) == Pointee(target).t = "map"
is_array(target) == Pointee(target).t = "array"
is_string(target) == Pointee(target).t = "string"
contents_type_id(target) == Pointee(target).t
clone_into_dynamic(target) == Pointee(target)
\* as_dynamic: Ok only when the pointer is to a Dynamic.
as_dynamic(target) == target.dyn
\* set_value: a Dynamic takes any value; a typed pointee takes a value of its own
\* type only.  Gives the result and the root after the write.
set_value(target, new_val) ==
    IF target.dyn \/ new_val.t = Pointee(target).t
    THEN [r |-> Ok(VUnit), root |-> SetAt(target.root, target.path, new_val)]
    ELSE [r |-> Err(EvalAltResult("ErrorMismatchOutputType", <<Pointee(target).t>>)), root |-> target.root]

(***************************************************************************)
(* Native functions, as RegisterFn wraps them: each argument is matched    *)
(* by its type through the key, a first parameter declared &mut is passed  *)
(* by reference and every other argument by value.  NativeCall gives the   *)
(* result and the arguments after the call.                                *)
(***************************************************************************)
NativeFn(nf, tag, key) == [nf |-> nf, tag |-> tag, key |-> key]
\* The standard package's arithmetic and comparison on i64.
FnAdd == NativeFn("add", 0, "")
FnSub == NativeFn("sub", 0, "")
FnEq == NativeFn("eq", 0, "")
\* Host functions fn(x: &mut i64) { *x = 0 } and fn(a: &mut Array) { a.clear() }.
FnReset == NativeFn("reset", 0, "")
FnClear == NativeFn("clear", 0, "")
\* A host function fn() -> i64 { tag } (and with one, two parameters): the tag
\* tells which registration was invoked.
FnTag(tag) == NativeFn("tag", tag, "")
\* Host property accessors fn(&mut T) -> U { obj.key.clone() } and
\* fn(&mut T, v: U) { obj.key = v }.
FnGetter(key) == NativeFn("getter", 0, key)
FnSetter(key) == NativeFn("setter", 0, key)
\* A host constructor fn() -> T { value }.
FnNew(value) == NativeFn("new", value, "")
\* A function registered with register_result_fn that returns an error.
FnFail == NativeFn("fail", 0, "")

NativeCall(func, args) ==
    CASE func.nf = "add" -> [r |-> Ok(VInt(args[1].i + args[2].i)), args |-> args]
      [] func.nf = "sub" -> [r |-> Ok(VInt(args[1].i - args[2].i)), args |-> args]
      [] func.nf = "eq" -> [r |-> Ok(VBool(args[1].i = args[2].i)), args |-> args]
      [] func.nf = "reset" -> [r |-> Ok(VUnit), args |-> [args EXCEPT ![1] = VInt(0)]]
      [] func.nf = "clear" -> [r |-> Ok(VUnit), args |-> [args EXCEPT ![1] = VArr(<<>>)]]
      [] func.nf = "tag" -> [r |-> Ok(VInt(func.tag)), args |-> args]
      [] func.nf = "new" -> [r |-> Ok(func.tag), args |-> args]
      [] func.nf = "fail" -> [r |-> Err(EvalAltResult("ErrorRuntime", <<>>)), args |-> args]
      [] func.nf = "getter" -> [r |-> Ok(args[1].f[func.key]), args |-> args]
      [] func.nf = "setter" ->
           [r |-> Ok(VUnit), args |-> [args EXCEPT ![1].f[func.key] = args[2]]]

(***************************************************************************)
(* The syntax tree (parser.rs: Expr, Stmt, FnDef), positions left out.     *)
(* A Variable carries the offset the parser cached for it, counted from    *)
(* the end of the scope, or 0 for none.                                    *)
(***************************************************************************)
IntegerConstant(i) == [k |-> "IntegerConstant", i |-> i]
StringConstant(str) == [k |-> "StringConstant", s |-> str]
CharConstant(c) == [k |-> "CharConstant", c |-> c]
ETrue == [k |-> "True"]
EFalse == [k |-> "False"]
EUnit == [k |-> "Unit"]
Variable(id, index) == [k |-> "Variable", id |-> id, index |-> index]
Property(id) == [k |-> "Property", id |-> id]
StmtExpr(stmt) == [k |-> "Stmt", stmt |-> stmt]
Assignment(lhs, rhs) == [k |-> "Assignment", lhs |-> lhs, rhs |-> rhs]
Dot(lhs, rhs) == [k |-> "Dot", lhs |-> lhs, rhs |-> rhs]
Index(lhs, rhs) == [k |-> "Index", lhs |-> lhs, rhs |-> rhs]
Array(items) == [k |-> "Array", items |-> items]
MapExpr(items) == [k |-> "Map", items |-> items]
FnCall(id, args, def) == [k |-> "FnCall", id |-> id, args |-> args, def |-> def]
In(lhs, rhs) == [k |-> "In", lhs |-> lhs, rhs |-> rhs]
And(lhs, rhs) == [k |-> "And", lhs |-> lhs, rhs |-> rhs]
Or(lhs, rhs) == [k |-> "Or", lhs |-> lhs, rhs |-> rhs]

Noop == [k |-> "Noop"]
Expr(expr) == [k |-> "Expr", expr |-> expr]
Block(block) == [k |-> "Block", block |-> block]
IfThenElse(guard, if_body, else_body) ==
    [k |-> "IfThenElse", guard |-> guard, if_body |-> if_body, else_body |-> else_body]
While(guard, body) == [k |-> "While", guard |-> guard, body |-> body]
Loop(body) == [k |-> "Loop", body |-> body]
For(name, expr, body) == [k |-> "For", name |-> name, expr |-> expr, body |-> body]
Continue == [k |-> "Continue"]
Break == [k |-> "Break"]
ReturnWithVal(val, typ) == [k |-> "ReturnWithVal", val |-> val, typ |-> typ]
Let(name, expr) == [k |-> "Let", name |-> name, expr |-> expr]
Const(name, expr) == [k |-> "Const", name |-> name, expr |-> expr]

FnDef(name, params, body) == [name |-> name, params |-> params, body |-> body]
AST(statements, fn_lib) == [statements |-> statements, fn_lib |-> fn_lib]

(***************************************************************************)
(* The evaluator.  A machine m carries what an evaluation reads and        *)
(* writes: the Scope and the State (always_search) of the running          *)
(* activation, and, for the record, the calls made so far (out), the       *)
(* number of script function bodies now running (nest), the largest such   *)
(* number reached (maxnest) and the loop iterations left (fuel).           *)
(* Every operator gives back its result r and the machine after it.        *)
(***************************************************************************)
Machine(sc) ==
    [scope |-> sc, always_search |-> FALSE, out |-> <<>>, nest |-> 0, maxnest |-> 0,
     fuel |-> 0, stale |-> FALSE]
Log(m, event) == [m EXCEPT !.out = Append(m.out, event)]
Max(a, b) == IF a > b THEN a ELSE b

RECURSIVE run(_)


\* self.functions.get(&fn_spec).or_else(first package, in list order, holding the key)
FindInPackages(packages, fn_spec) ==
    IF \E j \in 1..Len(packages) : contains_key(packages[j].functions, fn_spec)
    THEN LET j == CHOOSE j \in 1..Len(packages) :
                     /\ contains_key(packages[j].functions, fn_spec)
                     /\ \A h \in 1..(j - 1) : ~contains_key(packages[h].functions, fn_spec)
         IN TableGet(packages[j].functions, fn_spec)
    ELSE None
FindNative(self, fn_spec) ==
    IF contains_key(self.functions, fn_spec) THEN TableGet(self.functions, fn_spec)
    ELSE FindInPackages(self.packages, fn_spec)

\* format!("{} ({})", fn_name, types_list.join(", ")), kept as its pieces in order.
RECURSIVE Join(_, _)
Join(names, sep) ==
    IF Len(names) = 0 THEN <<>>
    ELSE IF Len(names) = 1 THEN <<names[1]>>
    ELSE <<names[1], sep>> \o Join(Tail1(names), sep)
\* The signature spelled with each argument's own type name.
FnSignature_unmapped(self, fn_name, args) ==
    <<fn_name, " (">> \o Join([j \in 1..Len(args) |-> args[j].t], ", ") \o <<")">>
FnSignature(self, fn_name, args) ==
    <<fn_name, " (">> \o Join([j \in 1..Len(args) |-> map_type_name(self, args[j].t)], ", ")
        \o <<")">>
IndexerSignature(self, args) ==
    <<"[](">> \o Join([j \in 1..Len(args) |-> map_type_name(self, args[j].t)], ", ")
        \o <<")">>

call_fn_raw(self, sc, fn_lib, fn_name, args, def_val, level, m) ==
    LET fn_def == get_function(fn_lib, fn_name, Len(args))
        fn_spec == calc_fn_hash(fn_name, TypesOf(args))
        func == FindNative(self, fn_spec)
        Out(r) == [r |-> r, args |-> args, scope |-> sc, m |-> m]
    IN  IF level > self.max_call_stack_depth THEN Out(Err(EvalAltResult("ErrorStackOverflow", <<>>)))
        ELSE IF IsSome(fn_def)
        THEN run(<<"call_fn_from_lib", self, sc, fn_lib, fn_def[1], args, level, m>>)
        ELSE IF IsSome(func)
        THEN LET c == NativeCall(func[1], args)
                 m1 == Log(m, [ev |-> "native", func |-> func[1], name |-> fn_name,
                               level |-> level])
                 Done(r, mm) == [r |-> r, args |-> c.args, scope |-> sc, m |-> mm]
             IN  IF ~c.r.ok THEN Done(c.r, m1)
                 ELSE IF fn_name \in {KEYWORD_PRINT, KEYWORD_DEBUG}
                 THEN IF c.r.v.t = "string"
                      THEN Done(Ok(VUnit), Log(m1, [ev |-> fn_name, s |-> c.r.v.s]))
                      ELSE Done(Err(EvalAltResult("ErrorMismatchOutputType", <<c.r.v.t>>)), m1)
                 ELSE Done(c.r, m1)
        ELSE IF IsSome(def_val) THEN Out(Ok(def_val[1]))
        ELSE IF IsSome(extract_prop_from_getter(fn_name))
        THEN Out(Err(EvalAltResult("ErrorDotExpr", <<extract_prop_from_getter(fn_name)[1], "unknown or write-only">>)))
        ELSE IF IsSome(extract_prop_from_setter(fn_name))
        THEN Out(Err(EvalAltResult("ErrorDotExpr", <<extract_prop_from_setter(fn_name)[1], "unknown or read-only">>)))
        ELSE IF fn_name = FUNC_INDEXER
        THEN Out(Err(EvalAltResult("ErrorFunctionNotFound", <<IndexerSignature(self, args)>>)))
        ELSE Out(Err(EvalAltResult("ErrorFunctionNotFound", <<FnSignature(self, fn_name, args)>>)))

\* The entries scope.extend pushes: one a parameter, zipped with the arguments.
ParamEntries(fn_def, args) ==
    [j \in 1..Min(Len(fn_def.params), Len(args)) |->
        [name |-> fn_def.params[j], typ |-> Normal, value |-> args[j], expr |-> None]]
\* mem::take on each zipped argument leaves () in the caller's slot.
TakenArgs(fn_def, args) ==
    [j \in 1..Len(args) |-> IF j <= Len(fn_def.params) THEN VUnit ELSE args[j]]

call_fn_from_lib(self, sc, fn_lib, fn_def, args, level, m) ==
    LET extern == IsSome(sc) /\ Len(sc[1]) > 0
        scope_len == IF extern THEN Len(sc[1]) ELSE 0
        base == IF extern THEN sc[1] ELSE <<>>
        m0 == Log(m, [ev |-> "script", name |-> fn_def.name, level |-> level])
        callee == [m0 EXCEPT !.scope = base \o ParamEntries(fn_def, args),
                             !.always_search = FALSE,
                             !.nest = m.nest + 1,
                             !.maxnest = Max(m.maxnest, m.nest + 1)]
        b == run(<<"eval_stmt", self, fn_lib, fn_def.body, callee, level + 1>>)
        result == IF ~b.r.ok /\ b.r.e.err = "Return" THEN Ok(b.r.e.info[1]) ELSE b.r
        back == [b.m EXCEPT !.scope = m.scope, !.always_search = m.always_search,
                            !.nest = m.nest]
    IN  [r |-> result,
         args |-> TakenArgs(fn_def, args),
         scope |-> IF extern
                   THEN (IF IsPanic(b.r) THEN Some(b.m.scope)
                         ELSE Some(rewind(b.m.scope, scope_len)))
                   ELSE sc,
         m |-> back]

has_override(self, fn_lib, name) ==
    LET hash == calc_fn_hash(name, <<"string">>)
    IN  \/ contains_key(self.functions, hash)
        \/ \E j \in 1..Len(self.packages) : contains_key(self.packages[j].functions, hash)
        \/ has_function(fn_lib, name, 1)

exec_fn_call(self, fn_lib, fn_name, args, def_val, level, m) ==
    IF fn_name = KEYWORD_TYPE_OF /\ Len(args) = 1 /\ ~has_override(self, fn_lib, KEYWORD_TYPE_OF)
    THEN [r |-> Ok(VStr(Spell(map_type_name(self, args[1].t)))), args |-> args, m |-> m]
    ELSE IF fn_name = KEYWORD_EVAL /\ Len(args) = 1 /\ ~has_override(self, fn_lib, KEYWORD_EVAL)
    THEN [r |-> Err(EvalAltResult("ErrorRuntime", <<<<"'eval' should not be called in method style. Try eval(...);">>>>)),
          args |-> args, m |-> m]
    ELSE LET c == run(<<"call_fn_raw", self, None, fn_lib, fn_name, args, def_val, level, m>>)
         IN  [r |-> c.r, args |-> c.args, m |-> c.m]

\* HashMap::entry(index).or_insert(value): the map with the key added if absent.
or_insert(map, index, value) ==
    [key \in DOMAIN map \cup {index} |-> IF key \in DOMAIN map THEN map[key] ELSE value]
\* A get_mut that has no last element.
slice_get_mut_short(arr_len, index) == index < arr_len - 1
\* arr.get_mut(index as usize) is Some exactly for an index below the length.
slice_get_mut(arr_len, index) == index < arr_len

\* get_indexed_mut gives the result and the target of the indexed element; with
\* create, the root of the target holds the map entry it inserted.
get_indexed_mut(self, target, idx, create) ==
    LET val == Pointee(target)
        Out(r, t) == [r |-> r, t |-> t]
        At(step) == Target(target.root, Append(target.path, step), TRUE)
    IN  IF is_array(target)
        THEN IF idx.t # "i64" THEN Out(Err(EvalAltResult("ErrorNumericIndexExpr", <<>>)), target)
             ELSE IF idx.i >= 0
             THEN IF slice_get_mut(Len(val.a), idx.i)
                  THEN Out(Ok(VUnit), At(StepIdx(idx.i)))
                  ELSE Out(Err(EvalAltResult("ErrorArrayBounds", <<Len(val.a), idx.i>>)), target)
             ELSE Out(Err(EvalAltResult("ErrorArrayBounds", <<Len(val.a), idx.i>>)), target)
        ELSE IF is_map(target)
        THEN IF idx.t # "string" THEN Out(Err(EvalAltResult("ErrorStringIndexExpr", <<>>)), target)
             ELSE IF create
             THEN Out(Ok(VUnit),
                      Target(SetAt(target.root, target.path, VMap(or_insert(val.m, idx.s, VUnit))),
                             Append(target.path, StepKey(idx.s)), TRUE))
             ELSE IF idx.s \in DOMAIN val.m
             THEN Out(Ok(VUnit), At(StepKey(idx.s)))
             ELSE Out(Err(EvalAltResult("ErrorIndexingType", <<"TODO: Create a real index not found error?">>)), target)
        ELSE IF is_string(target)
        THEN Out(Panic("Strings not yet implemented"), target)
        ELSE IF ~contains_key(self.mut_indexers, calc_fn_hash(FUNC_INDEXER, <<val.t, idx.t>>))
        THEN Out(Panic("Return some nice error"), target)
        ELSE \* the registered indexer fn(&mut T, i64) -> &mut i64 { &mut self.fields[index] }
             IF idx.i < 0 \/ idx.i >= Len(val.f.fields.a)
             THEN Out(Panic("index out of bounds"), target)
             ELSE Out(Ok(VUnit),
                      Target(target.root,
                             target.path \o <<StepField("fields"), StepIdx(idx.i)>>, FALSE))

\* The object a method, getter or setter is called on: the pointee itself when
\* the target points to a Dynamic, else a clone of it, which the call leaves
\* behind.  Gives the result, the root after the call and the machine.
CallOnTarget(self, fn_lib, target, fn_name, more_args, def_val, m) ==
    LET c == run(<<"exec_fn_call", self, fn_lib, fn_name, <<Pointee(target)>> \o more_args, def_val, 0, m>>)
    IN  [r |-> c.r,
         root |-> IF as_dynamic(target) THEN SetAt(target.root, target.path, c.args[1])
                  ELSE target.root,
         m |-> c.m]

eval_dot_index_chain_helper(self, fn_lib, target, rhs, idx_values, is_index, level, new_val, m) ==
    LET idx_val == idx_values[Len(idx_values)]
        rest == SubSeq(idx_values, 1, Len(idx_values) - 1)
        Out(r, root) == [r |-> r, root |-> root, m |-> m]
        Indexed(idx, create) == get_indexed_mut(self, target, idx, create)
        \* the terminal write and read through get_indexed_mut
        Write(idx) ==
            LET g == Indexed(idx, TRUE)
            IN  IF ~g.r.ok THEN Out(g.r, target.root)
                ELSE LET w == set_value(g.t, new_val[1])
                     IN  Out(IF w.r.ok THEN Ok(VUnit) ELSE w.r, w.root)
        Read(idx) ==
            LET g == Indexed(idx, FALSE)
            IN  IF ~g.r.ok THEN Out(g.r, target.root)
                ELSE Out(Ok(clone_into_dynamic(g.t)), target.root)
        \* one step further down the chain
        Step(idx, sub_rhs, sub_is_index) ==
            LET g == Indexed(idx, FALSE)
            IN  IF ~g.r.ok THEN Out(g.r, target.root)
                ELSE run(<<"eval_dot_index_chain_helper", self, fn_lib, g.t, sub_rhs, rest,
                                                 sub_is_index, level, new_val, m>>)
    IN
    IF is_index
    THEN CASE rhs.k \in {"Dot", "Index"} -> Step(idx_val, rhs.rhs, rhs.k = "Index")
           [] rhs.k \notin {"Dot", "Index"} /\ IsSome(new_val) -> Write(idx_val)
           [] OTHER -> Read(idx_val)
    ELSE CASE rhs.k = "FnCall" ->
                CallOnTarget(self, fn_lib, target, rhs.id, idx_val.a, rhs.def, m)
           [] rhs.k = "Property" /\ is_map(target) /\ IsSome(new_val) -> Write(VStr(<<rhs.id>>))
           [] rhs.k = "Property" /\ is_map(target) /\ ~IsSome(new_val) -> Read(VStr(<<rhs.id>>))
           [] rhs.k = "Property" /\ ~is_map(target) /\ IsSome(new_val) ->
                LET c == CallOnTarget(self, fn_lib, target, make_setter(rhs.id),
                                      <<new_val[1]>>, None, m)
                IN  [r |-> IF c.r.ok THEN Ok(VUnit) ELSE c.r, root |-> c.root, m |-> c.m]
           [] rhs.k = "Property" /\ ~is_map(target) /\ ~IsSome(new_val) ->
                CallOnTarget(self, fn_lib, target, make_getter(rhs.id), <<>>, None, m)
           [] rhs.k \in {"Dot", "Index"} /\ is_map(target) ->
                IF rhs.lhs.k = "Property"
                THEN Step(VStr(<<rhs.lhs.id>>), rhs.rhs, rhs.k = "Index")
                ELSE Out(Err(EvalAltResult("ErrorDotExpr", <<"", "">>)), target.root)
           [] rhs.k \in {"Dot", "Index"} /\ ~is_map(target) ->
                IF rhs.lhs.k # "Property" THEN Out(Err(EvalAltResult("ErrorDotExpr", <<"", "">>)), target.root)
                ELSE IF contains_key(self.mut_getters,
                            calc_fn_hash(make_mut_getter(rhs.lhs.id), <<contents_type_id(target)>>))
                THEN run(<<"eval_dot_index_chain_helper", self, fn_lib,
                         Target(target.root, Append(target.path, StepField(rhs.lhs.id)), FALSE),
                         rhs.rhs, rest, rhs.k = "Index", level, new_val, m>>)
                ELSE IF IsSome(new_val)
                THEN Out(Panic("Some sort of error here"), target.root)
                ELSE LET c == CallOnTarget(self, fn_lib, target, make_getter(rhs.lhs.id),
                                           <<>>, None, m)
                     IN  IF ~c.r.ok THEN c
                         ELSE LET h == run(<<"eval_dot_index_chain_helper", self, fn_lib,
                                           TargetFromDynamic(c.r.v), rhs.rhs, rest,
                                           rhs.k = "Index", level, new_val, c.m>>)
                              IN  [r |-> h.r, root |-> c.root, m |-> h.m]
           [] OTHER -> Out(Err(EvalAltResult("ErrorDotExpr", <<"", "">>)), target.root)

\* A search that reports every entry as a variable.
search_scope_normal(sc, name, index) ==
    IF index # 0
    THEN IF index > Len(sc) THEN Panic("invalid index in Scope")
         ELSE Ok([index |-> Len(sc) - index, typ |-> Normal])
    ELSE IF IsSome(get(sc, name)) THEN Ok([get(sc, name)[1] EXCEPT !.typ = Normal])
    ELSE Err(EvalAltResult("ErrorVariableNotFound", <<name>>))

\* search_scope, without modules: the entry at the cached offset from the end
\* of the scope, else the newest entry of that name.  An offset beyond the
\* scope's length has no entry to give (scope.get_mut(index).expect(..)).
search_scope(sc, name, index) ==
    IF index # 0
    THEN IF index > Len(sc) THEN Panic("invalid index in Scope")
         ELSE Ok([index |-> Len(sc) - index, typ |-> sc[Len(sc) - index + 1].typ])
    ELSE IF IsSome(get(sc, name)) THEN Ok(get(sc, name)[1])
    ELSE Err(EvalAltResult("ErrorVariableNotFound", <<name>>))

\* The position a cached offset names is inside the scope and holds the newest
\* entry of the name.
offset_holds(sc, name, index) ==
    /\ index <= Len(sc)
    /\ IsSome(get(sc, name))
    /\ get(sc, name)[1].index = Len(sc) - index
\* The machine after a variable was resolved: it remembers whether some cached
\* offset named another position than the search by name would have.
resolved(m, name, index) ==
    IF index = 0 THEN m ELSE [m EXCEPT !.stale = @ \/ ~offset_holds(m.scope, name, index)]

\* Expr::is_constant: a literal, or an array or map of constants.
RECURSIVE is_constant(_)
is_constant(expr) ==
    CASE expr.k \in {"IntegerConstant", "CharConstant", "StringConstant", "True", "False",
                     "Unit"} -> TRUE
      [] expr.k = "Array" -> \A j \in 1..Len(expr.items) : is_constant(expr.items[j])
      [] expr.k = "Map" -> \A j \in 1..Len(expr.items) : is_constant(expr.items[j].expr)
      [] OTHER -> FALSE
\* Expr::get_constant_str: the constant as text; the model keeps the expression.
get_constant_str(expr) == expr

\* The script texts the model can compile, each with its statements (the parser, at
\* OptimizationLevel::None, against an empty scope: no cached offset reaches
\* outside the text).
compile(script) ==
    IF script = <<"l", "e", "t", " ", "z", "=", "5", ";">>
    THEN Some([statements |-> <<Let("z", Some(IntegerConstant(5)))>>, fn_lib |-> {}])
    ELSE None

eval_indexed_chain(self, fn_lib, expr, idx_values, level, m) ==
    CASE expr.k = "FnCall" ->
           LET a == run(<<"eval_exprs", self, fn_lib, expr.args, m, level>>)
           IN  IF ~a.r.ok THEN [r |-> a.r, idx |-> idx_values, m |-> a.m]
               ELSE [r |-> Ok(VUnit), idx |-> Append(idx_values, VArr(a.r.v)), m |-> a.m]
      [] expr.k = "Property" -> [r |-> Ok(VUnit), idx |-> Append(idx_values, VUnit), m |-> m]
      [] expr.k \in {"Index", "Dot"} ->
           LET l == IF expr.lhs.k = "Property" THEN [r |-> Ok(VUnit), m |-> m]
                    ELSE run(<<"eval_expr", self, fn_lib, expr.lhs, m, level>>)
           IN  IF ~l.r.ok THEN [r |-> l.r, idx |-> idx_values, m |-> l.m]
               ELSE LET c == run(<<"eval_indexed_chain", self, fn_lib, expr.rhs, idx_values, level, l.m>>)
                    IN  IF ~c.r.ok THEN c
                        ELSE [r |-> Ok(VUnit), idx |-> Append(c.idx, l.r.v), m |-> c.m]
      [] OTHER ->
           LET v == run(<<"eval_expr", self, fn_lib, expr, m, level>>)
           IN  IF ~v.r.ok THEN [r |-> v.r, idx |-> idx_values, m |-> v.m]
               ELSE [r |-> Ok(VUnit), idx |-> Append(idx_values, v.r.v), m |-> v.m]

eval_dot_index_chain(self, fn_lib, dot_lhs, dot_rhs, is_index, level, new_val, m) ==
    LET c == run(<<"eval_indexed_chain", self, fn_lib, dot_rhs, <<>>, level, m>>)
    IN
    IF ~c.r.ok THEN [r |-> c.r, m |-> c.m]
    ELSE IF dot_lhs.k = "Variable"
    THEN LET index == IF c.m.always_search THEN 0 ELSE dot_lhs.index
             found == search_scope(c.m.scope, dot_lhs.id, index)
             cm == resolved(c.m, dot_lhs.id, index)
         IN  IF ~found.ok THEN [r |-> found, m |-> cm]
             ELSE IF found.v.typ = Constant /\ IsSome(new_val)
             THEN [r |-> Err(EvalAltResult("ErrorAssignmentToConstant", <<dot_lhs.id>>)), m |-> cm]
             ELSE LET slot == found.v.index + 1
                      h == run(<<"eval_dot_index_chain_helper", self, fn_lib,
                               TargetFromDynamic(c.m.scope[slot].value), dot_rhs, c.idx,
                               is_index, level, new_val, cm>>)
                  IN  [r |-> h.r, m |-> [h.m EXCEPT !.scope[slot].value = h.root]]
    ELSE IF IsSome(new_val)
    THEN [r |-> Err(EvalAltResult("ErrorAssignmentToUnknownLHS", <<>>)), m |-> c.m]
    ELSE LET val == run(<<"eval_expr", self, fn_lib, dot_lhs, c.m, level>>)
         IN  IF ~val.r.ok THEN val
             ELSE LET h == run(<<"eval_dot_index_chain_helper", self, fn_lib,
                               TargetFromDynamic(val.r.v), dot_rhs, c.idx, is_index, level,
                               new_val, val.m>>)
                  IN  [r |-> h.r, m |-> h.m]

\* eval_ast_with_scope_raw: the statements in order on the given scope, under a
\* State of their own and from call level 0; a return gives its value.
eval_ast_with_scope_raw(self, fn_lib, statements, m) ==
    LET b == run(<<"eval_block", self, fn_lib, statements, 1, Ok(VUnit),
                        [m EXCEPT !.always_search = FALSE], 0>>)
    IN  [r |-> IF ~b.r.ok /\ b.r.e.err = "Return" THEN Ok(b.r.e.info[1]) ELSE b.r,
         m |-> [b.m EXCEPT !.always_search = m.always_search]]

eval_script_expr(self, fn_lib, script, m) ==
    IF script.t # "string" THEN [r |-> Err(EvalAltResult("ErrorMismatchOutputType", <<script.t>>)), m |-> m]
    ELSE IF ~IsSome(compile(script.s)) THEN [r |-> Err(EvalAltResult("ErrorParsing", <<>>)), m |-> m]
    ELSE IF compile(script.s)[1].fn_lib # {}
    THEN [r |-> Err(EvalAltResult("ErrorParsing", <<>>)), m |-> m]
    ELSE eval_ast_with_scope_raw(self, fn_lib, compile(script.s)[1].statements, m)

\* String::contains for a pattern of characters.
str_contains(text, pat) ==
    \E j \in 1..(Len(text) - Len(pat) + 1) : SubSeq(text, j, j + Len(pat) - 1) = pat

\* The array arm of eval_in_expr: `==` on a copy of each element in turn.
eval_in_array(self, fn_lib, lhs_value, arr, j, level, m) ==
    IF j > Len(arr) THEN [r |-> Ok(VBool(FALSE)), m |-> m]
    ELSE LET c == run(<<"call_fn_raw", self, None, fn_lib, "==", <<lhs_value, arr[j]>>,
                              Some(VBool(FALSE)), level, m>>)
         IN  IF ~c.r.ok THEN [r |-> c.r, m |-> c.m]
             ELSE IF c.r.v.t = "bool" /\ c.r.v.b THEN [r |-> Ok(VBool(TRUE)), m |-> c.m]
             ELSE run(<<"eval_in_array", self, fn_lib, lhs_value, arr, j + 1, level, c.m>>)

eval_in_expr(self, fn_lib, lhs, rhs, m, level) ==
    LET l == run(<<"eval_expr", self, fn_lib, lhs, m, level>>)
        r == run(<<"eval_expr", self, fn_lib, rhs, l.m, level>>)
    IN  IF ~l.r.ok THEN l
        ELSE IF ~r.r.ok THEN r
        ELSE CASE r.r.v.t = "array" -> run(<<"eval_in_array", self, fn_lib, l.r.v, r.r.v.a, 1, level, r.m>>)
               [] r.r.v.t = "map" ->
                    [r |-> CASE l.r.v.t = "string" -> Ok(VBool(l.r.v.s \in DOMAIN r.r.v.m))
                             [] l.r.v.t = "char" -> Ok(VBool(<<l.r.v.c>> \in DOMAIN r.r.v.m))
                             [] OTHER -> Err(EvalAltResult("ErrorInExpr", <<>>)),
                     m |-> r.m]
               [] r.r.v.t = "string" ->
                    [r |-> CASE l.r.v.t = "string" -> Ok(VBool(str_contains(r.r.v.s, l.r.v.s)))
                             [] l.r.v.t = "char" -> Ok(VBool(str_contains(r.r.v.s, <<l.r.v.c>>)))
                             [] OTHER -> Err(EvalAltResult("ErrorInExpr", <<>>)),
                     m |-> r.m]
               [] OTHER -> [r |-> Err(EvalAltResult("ErrorInExpr", <<>>)), m |-> r.m]

\* The expressions of a list in order, stopping at the first error.
eval_exprs(self, fn_lib, exprs, m, level) ==
    IF exprs = <<>> THEN [r |-> Ok(<<>>), m |-> m]
    ELSE LET v == run(<<"eval_expr", self, fn_lib, exprs[1], m, level>>)
         IN  IF ~v.r.ok THEN v
             ELSE LET more == run(<<"eval_exprs", self, fn_lib, Tail1(exprs), v.m, level>>)
                  IN  IF ~more.r.ok THEN more
                      ELSE [r |-> Ok(<<v.r.v>> \o more.r.v), m |-> more.m]

\* Dynamic::as_bool
as_bool(v) == IF v.t = "bool" THEN Some(v.b) ELSE None

\* HashMap collected from (key, value) pairs in order: a later pair replaces an earlier.
RECURSIVE collect_map(_, _, _)
collect_map(items, values, j) ==
    IF j > Len(items) THEN [key \in {} |-> VUnit]
    ELSE LET rest == collect_map(items, values, j + 1)
         IN  [key \in DOMAIN rest \cup {items[j].key} |->
                 IF key \in DOMAIN rest THEN rest[key] ELSE values[j]]

eval_expr(self, fn_lib, expr, m, level) ==
    CASE expr.k = "IntegerConstant" -> [r |-> Ok(VInt(expr.i)), m |-> m]
      [] expr.k = "StringConstant" -> [r |-> Ok(VStr(expr.s)), m |-> m]
      [] expr.k = "CharConstant" -> [r |-> Ok(VChar(expr.c)), m |-> m]
      [] expr.k = "True" -> [r |-> Ok(VBool(TRUE)), m |-> m]
      [] expr.k = "False" -> [r |-> Ok(VBool(FALSE)), m |-> m]
      [] expr.k = "Unit" -> [r |-> Ok(VUnit), m |-> m]
      [] expr.k = "Variable" ->
           LET index == IF m.always_search THEN 0 ELSE expr.index
               val == search_scope(m.scope, expr.id, index)
           IN  [r |-> IF val.ok THEN Ok(m.scope[val.v.index + 1].value) ELSE val,
                m |-> resolved(m, expr.id, index)]
      [] expr.k = "Property" -> [r |-> Panic("unreachable"), m |-> m]
      [] expr.k = "Stmt" -> run(<<"eval_stmt", self, fn_lib, expr.stmt, m, level>>)
      [] expr.k = "Assignment" ->
           LET rhs_val == run(<<"eval_expr", self, fn_lib, expr.rhs, m, level>>)
               m1 == rhs_val.m
               lhs == expr.lhs
           IN  IF ~rhs_val.r.ok THEN rhs_val
               ELSE CASE lhs.k = "Variable" ->
                           LET index == IF m1.always_search THEN 0 ELSE lhs.index
                               found == search_scope(m1.scope, lhs.id, index)
                               m2 == resolved(m1, lhs.id, index)
                           IN  IF ~found.ok THEN [r |-> found, m |-> m2]
                               ELSE IF found.v.typ = Constant
                               THEN [r |-> Err(EvalAltResult("ErrorAssignmentToConstant", <<lhs.id>>)), m |-> m2]
                               ELSE [r |-> Ok(VUnit),
                                     m |-> [m2 EXCEPT !.scope[found.v.index + 1].value =
                                                          rhs_val.r.v]]
                      [] lhs.k = "Index" ->
                           run(<<"eval_dot_index_chain", self, fn_lib, lhs.lhs, lhs.rhs, TRUE, level,
                                                Some(rhs_val.r.v), m1>>)
                      [] lhs.k = "Dot" ->
                           run(<<"eval_dot_index_chain", self, fn_lib, lhs.lhs, lhs.rhs, FALSE, level,
                                                Some(rhs_val.r.v), m1>>)
                      [] OTHER ->
                           IF is_constant(lhs)
                           THEN [r |-> Err(EvalAltResult("ErrorAssignmentToConstant", <<get_constant_str(lhs)>>)),
                                 m |-> m1]
                           ELSE [r |-> Err(EvalAltResult("ErrorAssignmentToUnknownLHS", <<>>)), m |-> m1]
      [] expr.k = "Index" ->
           run(<<"eval_dot_index_chain", self, fn_lib, expr.lhs, expr.rhs, TRUE, level, None, m>>)
      [] expr.k = "Dot" ->
           run(<<"eval_dot_index_chain", self, fn_lib, expr.lhs, expr.rhs, FALSE, level, None, m>>)
      [] expr.k = "Array" ->
           LET a == run(<<"eval_exprs", self, fn_lib, expr.items, m, level>>)
           IN  IF ~a.r.ok THEN a ELSE [r |-> Ok(VArr(a.r.v)), m |-> a.m]
      [] expr.k = "Map" ->
           LET a == run(<<"eval_exprs", self, fn_lib,
                               [j \in 1..Len(expr.items) |-> expr.items[j].expr], m, level>>)
           IN  IF ~a.r.ok THEN a
               ELSE [r |-> Ok(VMap(collect_map(expr.items, a.r.v, 1))), m |-> a.m]
      [] expr.k = "FnCall" ->
           LET a == run(<<"eval_exprs", self, fn_lib, expr.args, m, level>>)
           IN  IF ~a.r.ok THEN a
               ELSE IF /\ expr.id = KEYWORD_EVAL
                       /\ Len(a.r.v) = 1
                       /\ ~has_override(self, fn_lib, KEYWORD_EVAL)
               THEN LET prev_len == Len(a.m.scope)
                        result == run(<<"eval_script_expr", self, fn_lib, a.r.v[1], a.m>>)
                    IN  IF IsPanic(result.r) THEN result
                        ELSE [r |-> result.r,
                              m |-> IF Len(result.m.scope) # prev_len
                                    THEN [result.m EXCEPT !.always_search = TRUE]
                                    ELSE result.m]
               ELSE LET c == run(<<"exec_fn_call", self, fn_lib, expr.id, a.r.v, expr.def, level, a.m>>)
                    IN  [r |-> c.r, m |-> c.m]
      [] expr.k = "In" -> eval_in_expr(self, fn_lib, expr.lhs, expr.rhs, m, level)
      [] expr.k \in {"And", "Or"} ->
           LET op == IF expr.k = "And" THEN "AND" ELSE "OR"
               l == run(<<"eval_expr", self, fn_lib, expr.lhs, m, level>>)
               r == run(<<"eval_expr", self, fn_lib, expr.rhs, l.m, level>>)
           IN  IF ~l.r.ok THEN l
               ELSE IF ~IsSome(as_bool(l.r.v))
               THEN [r |-> Err(EvalAltResult("ErrorBooleanArgMismatch", <<op>>)), m |-> l.m]
               ELSE IF as_bool(l.r.v)[1] = (expr.k = "Or")
               THEN [r |-> Ok(VBool(expr.k = "Or")), m |-> l.m]
               ELSE IF ~r.r.ok THEN r
               ELSE IF ~IsSome(as_bool(r.r.v))
               THEN [r |-> Err(EvalAltResult("ErrorBooleanArgMismatch", <<op>>)), m |-> r.m]
               ELSE [r |-> Ok(VBool(as_bool(r.r.v)[1])), m |-> r.m]

\* try_fold over the statements of a block: the value of the last, or the first error.
eval_block(self, fn_lib, block, j, acc, m, level) ==
    IF j > Len(block) THEN [r |-> acc, m |-> m]
    ELSE LET st == run(<<"eval_stmt", self, fn_lib, block[j], m, level>>)
         IN  IF ~st.r.ok THEN st
             ELSE run(<<"eval_block", self, fn_lib, block, j + 1, st.r, st.m, level>>)

IsLoopBreak(r, is_break) == ~r.ok /\ r.e.err = "ErrorLoopBreak" /\ r.e.info[1] = is_break

eval_while(self, fn_lib, guard, body, m, level) ==
    LET g == run(<<"eval_expr", self, fn_lib, guard, m, level>>)
        b == run(<<"eval_stmt", self, fn_lib, body, g.m, level>>)
    IN  IF ~g.r.ok THEN g
        ELSE IF ~IsSome(as_bool(g.r.v)) THEN [r |-> Err(EvalAltResult("ErrorLogicGuard", <<>>)), m |-> g.m]
        ELSE IF ~as_bool(g.r.v)[1] THEN [r |-> Ok(VUnit), m |-> g.m]
        ELSE IF m.fuel = 0 THEN [r |-> Diverges, m |-> g.m]
        ELSE IF b.r.ok \/ IsLoopBreak(b.r, FALSE)
        THEN run(<<"eval_while", self, fn_lib, guard, body, [b.m EXCEPT !.fuel = Max(b.m.fuel - 1, 0)], level>>)
        ELSE IF IsLoopBreak(b.r, TRUE) THEN [r |-> Ok(VUnit), m |-> b.m]
        ELSE b

eval_loop(self, fn_lib, body, m, level) ==
    LET b == run(<<"eval_stmt", self, fn_lib, body, m, level>>)
    IN  IF m.fuel = 0 THEN [r |-> Diverges, m |-> m]
        ELSE IF b.r.ok \/ IsLoopBreak(b.r, FALSE)
        THEN run(<<"eval_loop", self, fn_lib, body, [b.m EXCEPT !.fuel = Max(b.m.fuel - 1, 0)], level>>)
        ELSE IF IsLoopBreak(b.r, TRUE) THEN [r |-> Ok(VUnit), m |-> b.m]
        ELSE b

\* The iterations of a for loop over the items from the j-th on; index is the
\* loop variable's place in the scope.  An error in the body returns at once.
eval_for(self, fn_lib, items, j, body, index, m, level) ==
    LET done(mm) == [r |-> Ok(VUnit), m |-> [mm EXCEPT !.scope = rewind(mm.scope, Len(mm.scope) - 1)]]
        m1 == [m EXCEPT !.scope[index + 1].value = items[j]]
        b == run(<<"eval_stmt", self, fn_lib, body, m1, level>>)
    IN  IF j > Len(items) THEN done(m)
        ELSE IF b.r.ok \/ IsLoopBreak(b.r, FALSE)
        THEN run(<<"eval_for", self, fn_lib, items, j + 1, body, index, b.m, level>>)
        ELSE IF IsLoopBreak(b.r, TRUE) THEN done(b.m)
        ELSE b

\* self.type_iterators.get(&tid).or_else(first package with an iterator for it)
has_type_iterator(self, tid) ==
    \/ tid \in self.type_iterators
    \/ \E j \in 1..Len(self.packages) : tid \in self.packages[j].type_iterators

eval_stmt(self, fn_lib, stmt, m, level) ==
    CASE stmt.k = "Noop" -> [r |-> Ok(VUnit), m |-> m]
      [] stmt.k = "Expr" ->
           LET result == run(<<"eval_expr", self, fn_lib, stmt.expr, m, level>>)
           IN  IF result.r.ok /\ stmt.expr.k = "Assignment"
               THEN [r |-> Ok(VUnit), m |-> result.m]
               ELSE result
      [] stmt.k = "Block" ->
           LET prev_len == Len(m.scope)
               result == run(<<"eval_block", self, fn_lib, stmt.block, 1, Ok(VUnit), m, level>>)
           IN  IF IsPanic(result.r) THEN result
               ELSE [r |-> result.r,
                     m |-> [result.m EXCEPT !.scope = rewind(result.m.scope, prev_len),
                                            !.always_search = FALSE]]
      [] stmt.k = "IfThenElse" ->
           LET g == run(<<"eval_expr", self, fn_lib, stmt.guard, m, level>>)
           IN  IF ~g.r.ok THEN g
               ELSE IF ~IsSome(as_bool(g.r.v)) THEN [r |-> Err(EvalAltResult("ErrorLogicGuard", <<>>)), m |-> g.m]
               ELSE IF as_bool(g.r.v)[1] THEN run(<<"eval_stmt", self, fn_lib, stmt.if_body, g.m, level>>)
               ELSE IF IsSome(stmt.else_body)
               THEN run(<<"eval_stmt", self, fn_lib, stmt.else_body[1], g.m, level>>)
               ELSE [r |-> Ok(VUnit), m |-> g.m]
      [] stmt.k = "While" -> run(<<"eval_while", self, fn_lib, stmt.guard, stmt.body, m, level>>)
      [] stmt.k = "Loop" -> run(<<"eval_loop", self, fn_lib, stmt.body, m, level>>)
      [] stmt.k = "For" ->
           LET arr == run(<<"eval_expr", self, fn_lib, stmt.expr, m, level>>)
           IN  IF ~arr.r.ok THEN arr
               ELSE IF ~has_type_iterator(self, arr.r.v.t)
               THEN [r |-> Err(EvalAltResult("ErrorFor", <<>>)), m |-> arr.m]
               ELSE run(<<"eval_for", self, fn_lib, arr.r.v.a, 1, stmt.body, Len(arr.m.scope),
                             [arr.m EXCEPT !.scope = push(arr.m.scope, stmt.name, VUnit)],
                             level>>)
      [] stmt.k = "Continue" -> [r |-> Err(EvalAltResult("ErrorLoopBreak", <<FALSE>>)), m |-> m]
      [] stmt.k = "Break" -> [r |-> Err(EvalAltResult("ErrorLoopBreak", <<TRUE>>)), m |-> m]
      [] stmt.k = "ReturnWithVal" ->
           IF ~IsSome(stmt.val)
           THEN [r |-> Err(IF stmt.typ = "Return" THEN EvalAltResult("Return", <<VUnit>>) ELSE EvalAltResult("ErrorRuntime", <<<<>>>>)),
                 m |-> m]
           ELSE LET val == run(<<"eval_expr", self, fn_lib, stmt.val[1], m, level>>)
                IN  IF ~val.r.ok THEN val
                    ELSE IF stmt.typ = "Return"
                    THEN [r |-> Err(EvalAltResult("Return", <<val.r.v>>)), m |-> val.m]
                    ELSE [r |-> Err(EvalAltResult("ErrorRuntime", <<IF val.r.v.t = "string" THEN val.r.v.s
                                                 ELSE <<>>>>)),
                          m |-> val.m]
      [] stmt.k = "Let" ->
           IF ~IsSome(stmt.expr)
           THEN [r |-> Ok(VUnit), m |-> [m EXCEPT !.scope = push(m.scope, stmt.name, VUnit)]]
           ELSE LET val == run(<<"eval_expr", self, fn_lib, stmt.expr[1], m, level>>)
                IN  IF ~val.r.ok THEN val
                    ELSE [r |-> Ok(VUnit),
                          m |-> [val.m EXCEPT !.scope = push_dynamic_value(val.m.scope,
                                                  stmt.name, Normal, val.r.v, FALSE)]]
      [] stmt.k = "Const" ->
           IF ~is_constant(stmt.expr) THEN [r |-> Panic("unreachable"), m |-> m]
           ELSE LET val == run(<<"eval_expr", self, fn_lib, stmt.expr, m, level>>)
                IN  IF ~val.r.ok THEN val
                    ELSE [r |-> Ok(VUnit),
                          m |-> [val.m EXCEPT !.scope = push_dynamic_value(val.m.scope,
                                                  stmt.name, Constant, val.r.v, TRUE)]]

\* Every call from one of the evaluator's functions to another goes through run,
\* which hands the request (the callee's name and its arguments) to the callee.
run(q) ==
    CASE q[1] = "eval_expr" ->
           eval_expr(q[2], q[3], q[4], q[5], q[6])
      [] q[1] = "eval_exprs" ->
           eval_exprs(q[2], q[3], q[4], q[5], q[6])
      [] q[1] = "eval_stmt" ->
           eval_stmt(q[2], q[3], q[4], q[5], q[6])
      [] q[1] = "eval_block" ->
           eval_block(q[2], q[3], q[4], q[5], q[6], q[7], q[8])
      [] q[1] = "eval_while" ->
           eval_while(q[2], q[3], q[4], q[5], q[6], q[7])
      [] q[1] = "eval_loop" ->
           eval_loop(q[2], q[3], q[4], q[5], q[6])
      [] q[1] = "eval_for" ->
           eval_for(q[2], q[3], q[4], q[5], q[6], q[7], q[8], q[9])
      [] q[1] = "eval_script_expr" ->
           eval_script_expr(q[2], q[3], q[4], q[5])
      [] q[1] = "eval_in_array" ->
           eval_in_array(q[2], q[3], q[4], q[5], q[6], q[7], q[8])
      [] q[1] = "call_fn_raw" ->
           call_fn_raw(q[2], q[3], q[4], q[5], q[6], q[7], q[8], q[9])
      [] q[1] = "call_fn_from_lib" ->
           call_fn_from_lib(q[2], q[3], q[4], q[5], q[6], q[7], q[8])
      [] q[1] = "exec_fn_call" ->
           exec_fn_call(q[2], q[3], q[4], q[5], q[6], q[7], q[8])
      [] q[1] = "eval_dot_index_chain_helper" ->
           eval_dot_index_chain_helper(q[2], q[3], q[4], q[5], q[6], q[7], q[8], q[9], q[10])
      [] q[1] = "eval_dot_index_chain" ->
           eval_dot_index_chain(q[2], q[3], q[4], q[5], q[6], q[7], q[8], q[9])
      [] q[1] = "eval_indexed_chain" ->
           eval_indexed_chain(q[2], q[3], q[4], q[5], q[6], q[7])

(***************************************************************************)
(* The Engine and its configuration by the host.                           *)
(***************************************************************************)
new_raw ==
    [functions |-> {}, packages |-> <<>>, mut_getters |-> {}, mut_indexers |-> {},
     type_iterators |-> {}, type_names |-> {}, optimization_level |-> "Simple",
     max_call_stack_depth |-> MAX_CALL_STACK_DEPTH]
\* A load that puts the package behind those loaded before it.
load_package_last(self, package) == [self EXCEPT !.packages = Append(self.packages, package)]
load_package(self, package) == [self EXCEPT !.packages = <<package>> \o self.packages]
set_max_call_levels(self, levels) == [self EXCEPT !.max_call_stack_depth = levels]
set_optimization_level(self, optimization_level) ==
    [self EXCEPT !.optimization_level = optimization_level]
register_fn(self, name, types, func) ==
    [self EXCEPT !.functions = TableInsert(self.functions, calc_fn_hash(name, types), func)]
register_get_mut(self, name, ty) ==
    [self EXCEPT !.mut_getters =
        TableInsert(self.mut_getters, calc_fn_hash(make_mut_getter(name), <<ty>>), name)]
\* A package: its functions and its type iterators; loaded is the count of
\* registrations and loads up to its own load, kept for the record.
PackageLibrary(functions, type_iterators, loaded) ==
    [functions |-> functions, type_iterators |-> type_iterators, loaded |-> loaded]
\* The part of the standard package the model's scripts use.
StandardPackage ==
    PackageLibrary({[key |-> calc_fn_hash("+", <<"i64", "i64">>), fn |-> FnAdd],
                    [key |-> calc_fn_hash("-", <<"i64", "i64">>), fn |-> FnSub],
                    [key |-> calc_fn_hash("==", <<"i64", "i64">>), fn |-> FnEq]},
                   {"array"}, 0)
Engine_new == load_package(new_raw, StandardPackage)

(***************************************************************************)
(* The parser's resolution of variables.  It keeps a stack of the names    *)
(* declared so far: a let, a const or a for puts its name on it, the end   *)
(* of a block takes off what the block put on, and a function body starts  *)
(* from its parameters.  A variable found on the stack gets its distance   *)
(* from the top (1 for the newest name) as its cached offset; one not      *)
(* found, such as a variable of the host's scope, gets none.  Scripts are  *)
(* written below with no offsets, and parsing fills them in.               *)
(***************************************************************************)
find(stack, name) ==
    IF \E j \in 1..Len(stack) : stack[j] = name
    THEN Len(stack) + 1 - CHOOSE j \in 1..Len(stack) :
             stack[j] = name /\ \A h \in (j + 1)..Len(stack) : stack[h] # name
    ELSE 0

RECURSIVE parse_expr(_, _)
RECURSIVE parse_stmt(_, _)
RECURSIVE parse_block(_, _)

parse_exprs(exprs, stack) == [j \in 1..Len(exprs) |-> parse_expr(exprs[j], stack)]

parse_expr(expr, stack) ==
    CASE expr.k = "Variable" -> Variable(expr.id, find(stack, expr.id))
      [] expr.k = "Stmt" -> StmtExpr(parse_stmt(expr.stmt, stack).stmt)
      [] expr.k \in {"Assignment", "Dot", "Index", "In", "And", "Or"} ->
           [expr EXCEPT !.lhs = parse_expr(expr.lhs, stack),
                        !.rhs = parse_expr(expr.rhs, stack)]
      [] expr.k = "Array" -> Array(parse_exprs(expr.items, stack))
      [] expr.k = "Map" ->
           MapExpr([j \in 1..Len(expr.items) |->
                       [expr.items[j] EXCEPT !.expr = parse_expr(expr.items[j].expr, stack)]])
      [] expr.k = "FnCall" -> FnCall(expr.id, parse_exprs(expr.args, stack), expr.def)
      [] OTHER -> expr

\* The statements of a block in order, each seeing the names those before it declared.
parse_block(block, stack) ==
    IF block = <<>> THEN <<>>
    ELSE LET first == parse_stmt(block[1], stack)
         IN  <<first.stmt>> \o parse_block(Tail1(block), first.stack)

\* A statement gives its resolved form and the stack after it.
parse_stmt(stmt, stack) ==
    LET same(st) == [stmt |-> st, stack |-> stack]
        body(st) == parse_stmt(st, stack).stmt
    IN
    CASE stmt.k = "Expr" -> same(Expr(parse_expr(stmt.expr, stack)))
      [] stmt.k = "Block" -> same(Block(parse_block(stmt.block, stack)))
      [] stmt.k = "IfThenElse" ->
           same(IfThenElse(parse_expr(stmt.guard, stack), body(stmt.if_body),
                           IF IsSome(stmt.else_body) THEN Some(body(stmt.else_body[1]))
                           ELSE None))
      [] stmt.k = "While" -> same(While(parse_expr(stmt.guard, stack), body(stmt.body)))
      [] stmt.k = "Loop" -> same(Loop(body(stmt.body)))
      [] stmt.k = "For" ->
           same(For(stmt.name, parse_expr(stmt.expr, stack),
                    parse_stmt(stmt.body, Append(stack, stmt.name)).stmt))
      [] stmt.k = "ReturnWithVal" ->
           same(ReturnWithVal(IF IsSome(stmt.val) THEN Some(parse_expr(stmt.val[1], stack))
                              ELSE None, stmt.typ))
      [] stmt.k = "Let" ->
           [stmt |-> Let(stmt.name, IF IsSome(stmt.expr)
                                    THEN Some(parse_expr(stmt.expr[1], stack)) ELSE None),
            stack |-> Append(stack, stmt.name)]
      [] stmt.k = "Const" ->
           [stmt |-> Const(stmt.name, parse_expr(stmt.expr, stack)),
            stack |-> Append(stack, stmt.name)]
      [] OTHER -> same(stmt)

parse_fn(fn_def) == FnDef(fn_def.name, fn_def.params, parse_stmt(fn_def.body, fn_def.params).stmt)
\* A script's statements and functions, parsed.
parse(statements, fns) == AST(parse_block(statements, <<>>), {parse_fn(f) : f \in fns})

\* Shorthands for writing scripts.
Var(id) == Variable(id, 0)
Call(id, args) == FnCall(id, args, None)
Lit(i) == IntegerConstant(i)

(***************************************************************************)
(* optimize.rs.  The State of a pass: the dirty flag, the constants in     *)
(* force, the engine, the (name, arity) pairs of the script's functions    *)
(* and the level.  Each optimizing operator gives the rewritten tree x and *)
(* the state after it.                                                     *)
(***************************************************************************)
MaxPasses == 6

State_new(eng, fn_lib, level) ==
    [changed |-> FALSE, constants |-> <<>>, engine |-> eng, fn_lib |-> fn_lib,
     optimization_level |-> level, eager |-> <<>>]
reset_keeps(st) == st
reset(st) == [st EXCEPT !.changed = FALSE]
set_dirty(st) == [st EXCEPT !.changed = TRUE]
is_dirty(st) == st.changed
contains_constant(st, name) == \E j \in 1..Len(st.constants) : st.constants[j].name = name
restore_constants(st, len) ==
    [st EXCEPT !.constants = SubSeq(st.constants, 1, Min(len, Len(st.constants)))]
State_push_constant(st, name, value) ==
    [st EXCEPT !.constants = Append(st.constants, [name |-> name, expr |-> value])]
find_constant(st, name) ==
    st.constants[CHOOSE j \in 1..Len(st.constants) :
                     /\ st.constants[j].name = name
                     /\ \A h \in (j + 1)..Len(st.constants) : st.constants[h].name # name].expr

\* The guard of the eager call: full optimizations and arguments that are all
\* constants.
eager_call_any_level(expr, st) == \A j \in 1..Len(expr.args) : is_constant(expr.args[j])
eager_call(expr, st) ==
    /\ st.optimization_level = "Full"
    /\ \A j \in 1..Len(expr.args) : is_constant(expr.args[j])
\* What the optimizer did with a call it took for an eager one: whether a
\* registered function was found and so invoked, its result, and the
\* expression that stands for the call afterwards.
eager_called(st, expr, invoked, r, out) ==
    [st EXCEPT !.eager = Append(@, [id |-> expr.id, args |-> expr.args, def |-> expr.def,
                                    invoked |-> invoked, r |-> r, out |-> out])]

\* call_fn: the registered function for the name and argument types, called.
call_fn(packages, functions, fn_name, args) ==
    LET func == FindNative([functions |-> functions, packages |-> packages],
                           calc_fn_hash(fn_name, TypesOf(args)))
    IN  IF ~IsSome(func) THEN Ok(None)
        ELSE IF NativeCall(func[1], args).r.ok THEN Ok(Some(NativeCall(func[1], args).r.v))
        ELSE NativeCall(func[1], args).r

\* Expr::is_pure and Stmt::is_pure (parser.rs).
RECURSIVE Expr_is_pure(_)
RECURSIVE Stmt_is_pure(_)
Expr_is_pure(expr) ==
    CASE expr.k = "Array" -> \A j \in 1..Len(expr.items) : Expr_is_pure(expr.items[j])
      [] expr.k \in {"Index", "And", "Or", "In"} -> Expr_is_pure(expr.lhs) /\ Expr_is_pure(expr.rhs)
      [] expr.k = "Stmt" -> Stmt_is_pure(expr.stmt)
      [] expr.k = "Variable" -> TRUE
      [] OTHER -> is_constant(expr)
Stmt_is_pure(stmt) ==
    CASE stmt.k = "Noop" -> TRUE
      [] stmt.k = "Expr" -> Expr_is_pure(stmt.expr)
      [] stmt.k = "IfThenElse" ->
           /\ Expr_is_pure(stmt.guard) /\ Stmt_is_pure(stmt.if_body)
           /\ IsSome(stmt.else_body) => Stmt_is_pure(stmt.else_body[1])
      [] stmt.k = "While" -> Expr_is_pure(stmt.guard) /\ Stmt_is_pure(stmt.body)
      [] stmt.k = "Loop" -> Stmt_is_pure(stmt.body)
      [] stmt.k = "For" -> Expr_is_pure(stmt.expr) /\ Stmt_is_pure(stmt.body)
      [] stmt.k = "Block" -> \A j \in 1..Len(stmt.block) : Stmt_is_pure(stmt.block[j])
      [] OTHER -> FALSE

\* Expr::get_constant_value (parser.rs): the value of a constant expression.
RECURSIVE get_constant_value(_)
get_constant_value(expr) ==
    CASE expr.k = "IntegerConstant" -> VInt(expr.i)
      [] expr.k = "CharConstant" -> VChar(expr.c)
      [] expr.k = "StringConstant" -> VStr(expr.s)
      [] expr.k = "True" -> VBool(TRUE)
      [] expr.k = "False" -> VBool(FALSE)
      [] expr.k = "Unit" -> VUnit
      [] expr.k = "Array" -> VArr([j \in 1..Len(expr.items) |-> get_constant_value(expr.items[j])])
      [] expr.k = "Map" ->
           VMap([key \in {expr.items[j].key : j \in 1..Len(expr.items)} |->
                    get_constant_value(
                        expr.items[CHOOSE j \in 1..Len(expr.items) :
                                       /\ expr.items[j].key = key
                                       /\ \A h \in (j + 1)..Len(expr.items) :
                                              expr.items[h].key # key].expr)])

\* The item of a map literal under a key, or the unit literal.
FindItem(items, key) ==
    IF \E j \in 1..Len(items) : items[j].key = key
    THEN items[CHOOSE j \in 1..Len(items) :
                   items[j].key = key /\ \A h \in 1..(j - 1) : items[h].key # key].expr
    ELSE EUnit
AllItemsPure(items) == \A j \in 1..Len(items) : Expr_is_pure(items[j].expr)

\* The lets with no value or a pure one at the end of a block are taken off.
TrailingLet(stmt) ==
    stmt.k = "Let" /\ (~IsSome(stmt.expr) \/ Expr_is_pure(stmt.expr[1]))
LastKept(result) ==
    IF \E j \in 1..Len(result) : ~TrailingLet(result[j])
    THEN CHOOSE j \in 1..Len(result) :
             ~TrailingLet(result[j]) /\ \A h \in (j + 1)..Len(result) : TrailingLet(result[h])
    ELSE 0
\* Everything after the first return, throw or break is dropped.
DeadFrom(result) ==
    IF \E j \in 1..Len(result) : result[j].k \in {"ReturnWithVal", "Break"}
    THEN CHOOSE j \in 1..Len(result) :
             /\ result[j].k \in {"ReturnWithVal", "Break"}
             /\ \A h \in 1..(j - 1) : result[h].k \notin {"ReturnWithVal", "Break"}
    ELSE Len(result)
NotPure(stmt) == ~Stmt_is_pure(stmt)

RECURSIVE orun(_)

optimize_exprs(exprs, st) ==
    IF exprs = <<>> THEN [x |-> <<>>, st |-> st]
    ELSE LET h == orun(<<"optimize_expr", exprs[1], st>>)
             t == orun(<<"optimize_exprs", Tail1(exprs), h.st>>)
         IN  [x |-> <<h.x>> \o t.x, st |-> t.st]

\* The first pass over a block's statements: a const goes into the state and
\* leaves a no-op, every other statement is optimized.
optimize_block(block, st, preserve_result) ==
    IF block = <<>> THEN [x |-> <<>>, st |-> st]
    ELSE LET h == IF block[1].k = "Const"
                  THEN [x |-> Noop,
                        st |-> set_dirty(State_push_constant(st, block[1].name, block[1].expr))]
                  ELSE orun(<<"optimize_stmt", block[1], st, preserve_result>>)
             t == orun(<<"optimize_block", Tail1(block), h.st, preserve_result>>)
         IN  [x |-> <<h.x>> \o t.x, st |-> t.st]
\* The second pass: every statement again, the last one keeping its result.
optimize_again(result, st) ==
    IF result = <<>> THEN [x |-> <<>>, st |-> st]
    ELSE LET h == orun(<<"optimize_stmt", result[1], st, Len(result) = 1>>)
             t == orun(<<"optimize_again", Tail1(result), h.st>>)
         IN  [x |-> <<h.x>> \o t.x, st |-> t.st]

optimize_stmt(stmt, st, preserve_result) ==
    LET Stmt1(x, st1) == [x |-> x, st |-> st1]
        sub_expr(expr, st1) == orun(<<"optimize_expr", expr, st1>>)
        sub_stmt(st0, st1, keep) == orun(<<"optimize_stmt", st0, st1, keep>>)
    IN
    CASE stmt.k = "IfThenElse" /\ ~IsSome(stmt.else_body) /\ stmt.if_body.k = "Noop" ->
           LET e == sub_expr(stmt.guard, set_dirty(st))
           IN  IF preserve_result THEN Stmt1(Block(<<Expr(e.x), stmt.if_body>>), e.st)
               ELSE Stmt1(Expr(e.x), e.st)
      [] stmt.k = "IfThenElse" /\ ~IsSome(stmt.else_body) /\ stmt.if_body.k # "Noop" ->
           IF stmt.guard.k = "False" THEN Stmt1(Noop, set_dirty(st))
           ELSE IF stmt.guard.k = "True" THEN sub_stmt(stmt.if_body, st, TRUE)
           ELSE LET e == sub_expr(stmt.guard, st)
                    b == sub_stmt(stmt.if_body, e.st, TRUE)
                IN  Stmt1(IfThenElse(e.x, b.x, None), b.st)
      [] stmt.k = "IfThenElse" /\ IsSome(stmt.else_body) ->
           IF stmt.guard.k = "False" THEN sub_stmt(stmt.else_body[1], st, TRUE)
           ELSE IF stmt.guard.k = "True" THEN sub_stmt(stmt.if_body, st, TRUE)
           ELSE LET e == sub_expr(stmt.guard, st)
                    b == sub_stmt(stmt.if_body, e.st, TRUE)
                    c == sub_stmt(stmt.else_body[1], b.st, TRUE)
                IN  Stmt1(IfThenElse(e.x, b.x, IF c.x.k = "Noop" THEN None ELSE Some(c.x)),
                          c.st)
      [] stmt.k = "While" ->
           IF stmt.guard.k = "False" THEN Stmt1(Noop, set_dirty(st))
           ELSE IF stmt.guard.k = "True"
           THEN LET b == sub_stmt(stmt.body, st, FALSE) IN Stmt1(Loop(b.x), b.st)
           ELSE LET b == sub_stmt(stmt.body, st, FALSE)
                    e == sub_expr(stmt.guard, IF b.x.k = "Break" THEN set_dirty(b.st) ELSE b.st)
                IN  IF b.x.k = "Break"
                    THEN Stmt1(Block(<<Expr(e.x)>> \o (IF preserve_result THEN <<Noop>>
                                                        ELSE <<>>)), e.st)
                    ELSE Stmt1(While(e.x, b.x), e.st)
      [] stmt.k = "Loop" ->
           LET b == sub_stmt(stmt.body, st, FALSE)
           IN  IF b.x.k = "Break" THEN Stmt1(Noop, set_dirty(b.st)) ELSE Stmt1(Loop(b.x), b.st)
      [] stmt.k = "For" ->
           LET e == sub_expr(stmt.expr, st)
               b == sub_stmt(stmt.body, e.st, FALSE)
           IN  Stmt1(For(stmt.name, e.x, b.x), b.st)
      [] stmt.k = "Let" /\ IsSome(stmt.expr) ->
           LET e == sub_expr(stmt.expr[1], st) IN Stmt1(Let(stmt.name, Some(e.x)), e.st)
      [] stmt.k = "Block" ->
           LET orig_len == Len(stmt.block)
               orig_constants_len == Len(st.constants)
               first == orun(<<"optimize_block", stmt.block, st, preserve_result>>)
               \* the pure statements go, but for the last when its result is kept
               kept == IF preserve_result /\ Len(first.x) > 0
                       THEN Append(SelectSeq(SubSeq(first.x, 1, Len(first.x) - 1), NotPure),
                                   first.x[Len(first.x)])
                       ELSE SelectSeq(first.x, NotPure)
               removed == LastKept(kept) < Len(kept)
               trimmed == SubSeq(kept, 1, LastKept(kept))
               again == IF preserve_result
                        THEN orun(<<"optimize_again",
                                    trimmed \o (IF removed THEN <<Noop>> ELSE <<>>), first.st>>)
                        ELSE [x |-> trimmed, st |-> first.st]
               result == SubSeq(again.x, 1, DeadFrom(again.x))
               st1 == IF orig_len # Len(result) THEN set_dirty(again.st) ELSE again.st
               st2 == restore_constants(st1, orig_constants_len)
           IN  IF Len(result) = 0 THEN Stmt1(Noop, set_dirty(st2))
               ELSE IF Len(result) = 1 THEN Stmt1(result[1], set_dirty(st2))
               ELSE Stmt1(Block(result), st2)
      [] stmt.k = "Expr" ->
           LET e == sub_expr(stmt.expr, st) IN Stmt1(Expr(e.x), e.st)
      [] stmt.k = "ReturnWithVal" /\ IsSome(stmt.val) ->
           LET e == sub_expr(stmt.val[1], st)
           IN  Stmt1(ReturnWithVal(Some(e.x), stmt.typ), e.st)
      [] OTHER -> Stmt1(stmt, st)

optimize_expr(expr, st) ==
    LET Expr1(x, st1) == [x |-> x, st |-> st1]
        sub_expr(e, st1) == orun(<<"optimize_expr", e, st1>>)
        both(make(_, _)) ==
            LET l == sub_expr(expr.lhs, st)
                r == sub_expr(expr.rhs, l.st)
            IN  Expr1(make(l.x, r.x), r.st)
        args_of(st1) ==
            LET a == orun(<<"optimize_exprs", expr.args, st1>>)
            IN  Expr1(FnCall(expr.id, a.x, expr.def), a.st)
        args_only == args_of(st)
    IN
    CASE expr.k = "Stmt" ->
           LET b == orun(<<"optimize_stmt", expr.stmt, st, TRUE>>)
           IN  IF b.x.k = "Noop" THEN Expr1(EUnit, set_dirty(b.st))
               ELSE IF b.x.k = "Expr" THEN Expr1(b.x.expr, set_dirty(b.st))
               ELSE Expr1(StmtExpr(b.x), b.st)
      [] expr.k = "Assignment" ->
           IF expr.rhs.k = "Assignment"
           THEN IF /\ expr.lhs.k = "Variable" /\ expr.rhs.lhs.k = "Variable"
                   /\ expr.lhs.id = expr.rhs.lhs.id /\ expr.lhs.index = expr.rhs.lhs.index
                THEN LET e == sub_expr(expr.rhs.rhs, set_dirty(st))
                     IN  Expr1(Assignment(expr.lhs, e.x), e.st)
                ELSE LET e == sub_expr(expr.rhs.rhs, st)
                     IN  Expr1(Assignment(expr.lhs, Assignment(expr.rhs.lhs, e.x)), e.st)
           ELSE LET e == sub_expr(expr.rhs, st) IN Expr1(Assignment(expr.lhs, e.x), e.st)
      [] expr.k = "Dot" ->
           IF expr.lhs.k = "Map" /\ expr.rhs.k = "Property" /\ AllItemsPure(expr.lhs.items)
           THEN Expr1(FindItem(expr.lhs.items, <<expr.rhs.id>>), set_dirty(st))
           ELSE both(Dot)
      [] expr.k = "Index" ->
           IF /\ expr.lhs.k = "Array" /\ expr.rhs.k = "IntegerConstant"
              /\ expr.rhs.i >= 0 /\ expr.rhs.i < Len(expr.lhs.items)
              /\ \A j \in 1..Len(expr.lhs.items) : Expr_is_pure(expr.lhs.items[j])
           THEN Expr1(expr.lhs.items[expr.rhs.i + 1], set_dirty(st))
           ELSE IF /\ expr.lhs.k = "Map" /\ expr.rhs.k = "StringConstant"
                   /\ AllItemsPure(expr.lhs.items)
           THEN Expr1(FindItem(expr.lhs.items, expr.rhs.s), set_dirty(st))
           ELSE IF /\ expr.lhs.k = "StringConstant" /\ expr.rhs.k = "IntegerConstant"
                   /\ expr.rhs.i >= 0 /\ expr.rhs.i < Len(expr.lhs.s)
           THEN Expr1(CharConstant(expr.lhs.s[expr.rhs.i + 1]), set_dirty(st))
           ELSE both(Index)
      [] expr.k = "Array" ->
           LET a == orun(<<"optimize_exprs", expr.items, st>>) IN Expr1(Array(a.x), a.st)
      [] expr.k = "Map" ->
           LET a == orun(<<"optimize_exprs",
                           [j \in 1..Len(expr.items) |-> expr.items[j].expr], st>>)
           IN  Expr1(MapExpr([j \in 1..Len(expr.items) |->
                                 [key |-> expr.items[j].key, expr |-> a.x[j]]]), a.st)
      [] expr.k = "In" ->
           IF expr.lhs.k \in {"StringConstant", "CharConstant"}
              /\ expr.rhs.k \in {"StringConstant", "Map"}
           THEN LET pat == IF expr.lhs.k = "StringConstant" THEN expr.lhs.s ELSE <<expr.lhs.c>>
                    found == IF expr.rhs.k = "StringConstant" THEN str_contains(expr.rhs.s, pat)
                             ELSE \E j \in 1..Len(expr.rhs.items) : expr.rhs.items[j].key = pat
                IN  Expr1(IF found THEN ETrue ELSE EFalse, set_dirty(st))
           ELSE both(In)
      [] expr.k = "And" ->
           IF expr.lhs.k = "True" THEN Expr1(expr.rhs, set_dirty(st))
           ELSE IF expr.lhs.k = "False" THEN Expr1(EFalse, set_dirty(st))
           ELSE IF expr.rhs.k = "True" THEN sub_expr(expr.lhs, set_dirty(st))
           ELSE both(And)
      [] expr.k = "Or" ->
           IF expr.lhs.k = "False" THEN Expr1(expr.rhs, set_dirty(st))
           ELSE IF expr.lhs.k = "True" THEN Expr1(ETrue, set_dirty(st))
           ELSE IF expr.rhs.k = "False" THEN sub_expr(expr.lhs, set_dirty(st))
           ELSE both(Or)
      [] expr.k = "FnCall" ->
           IF expr.id \in {KEYWORD_PRINT, KEYWORD_DEBUG, KEYWORD_EVAL} THEN args_only
           ELSE IF eager_call(expr, st)
           THEN IF <<expr.id, Len(expr.args)>> \in st.fn_lib THEN args_only
                ELSE LET arg_values == [j \in 1..Len(expr.args) |->
                                           get_constant_value(expr.args[j])]
                         arg_for_type_of ==
                             IF expr.id = KEYWORD_TYPE_OF /\ Len(arg_values) = 1
                             THEN Some(VStr(Spell(map_type_name(st.engine, arg_values[1].t))))
                             ELSE None
                         called == call_fn(st.engine.packages, st.engine.functions, expr.id,
                                           arg_values)
                         result == IF ~called.ok THEN None
                                   ELSE IF IsSome(called.v) THEN called.v
                                   ELSE IF IsSome(arg_for_type_of) THEN arg_for_type_of
                                   ELSE expr.def
                         mapped == IF IsSome(result) THEN map_dynamic_to_expr(result[1])
                                   ELSE None
                         invoked ==
                             IsSome(FindNative(st.engine,
                                               calc_fn_hash(expr.id, TypesOf(arg_values))))
                     IN  IF IsSome(mapped)
                         THEN Expr1(mapped[1],
                                    set_dirty(eager_called(st, expr, invoked, called,
                                                           mapped[1])))
                         ELSE args_of(eager_called(st, expr, invoked, called, expr))
           ELSE args_only
      [] expr.k = "Variable" /\ contains_constant(st, expr.id) ->
           Expr1(find_constant(st, expr.id), set_dirty(st))
      [] OTHER -> Expr1(expr, st)

\* One round of the optimization loop over the top-level statements: a const is
\* loaded and kept, a let and the last statement keep their result.
optimize_round(statements, i, st) ==
    IF i > Len(statements) THEN [x |-> <<>>, st |-> st]
    ELSE LET stmt == statements[i]
             h == IF stmt.k = "Const"
                  THEN [x |-> stmt, st |-> State_push_constant(st, stmt.name, stmt.expr)]
                  ELSE orun(<<"optimize_stmt", stmt, st,
                              stmt.k = "Let" \/ i = Len(statements)>>)
             t == orun(<<"optimize_round", statements, i + 1, h.st>>)
         IN  [x |-> <<h.x>> \o t.x, st |-> t.st]

\* The loop runs until a round changes nothing; the model stops it after
\* MaxPasses rounds and says so.
optimize_loop(result, st, orig_constants_len, passes) ==
    LET round == orun(<<"optimize_round", result, 1,
                        restore_constants(reset(st), orig_constants_len)>>)
    IN  IF ~is_dirty(round.st)
        THEN [x |-> round.x, done |-> TRUE, passes |-> passes + 1, eager |-> round.st.eager]
        ELSE IF passes + 1 >= MaxPasses
        THEN [x |-> round.x, done |-> FALSE, passes |-> passes + 1, eager |-> round.st.eager]
        ELSE orun(<<"optimize_loop", round.x, round.st, orig_constants_len, passes + 1>>)

orun(q) ==
    CASE q[1] = "optimize_stmt" -> optimize_stmt(q[2], q[3], q[4])
      [] q[1] = "optimize_expr" -> optimize_expr(q[2], q[3])
      [] q[1] = "optimize_exprs" -> optimize_exprs(q[2], q[3])
      [] q[1] = "optimize_block" -> optimize_block(q[2], q[3], q[4])
      [] q[1] = "optimize_again" -> optimize_again(q[2], q[3])
      [] q[1] = "optimize_round" -> optimize_round(q[2], q[3], q[4])
      [] q[1] = "optimize_loop" -> optimize_loop(q[2], q[3], q[4], q[5])

\* The scope's constants with a constant expression, oldest first.
IsConstantEntry(entry) ==
    entry.typ = Constant /\ IsSome(entry.expr) /\ is_constant(entry.expr[1])
scope_constants(sc) ==
    LET entries == SelectSeq(sc, IsConstantEntry)
    IN  [j \in 1..Len(entries) |-> [name |-> entries[j].name, expr |-> entries[j].expr[1]]]

\* After the loop: the pure statements go, the last statement stays unless it
\* is a no-op standing alone.
optimize_retain(looped) ==
    [looped EXCEPT
        !.x = IF Len(looped.x) = 0 THEN <<>>
              ELSE IF \/ SelectSeq(SubSeq(looped.x, 1, Len(looped.x) - 1), NotPure) # <<>>
                      \/ looped.x[Len(looped.x)].k # "Noop"
              THEN Append(SelectSeq(SubSeq(looped.x, 1, Len(looped.x) - 1), NotPure),
                          looped.x[Len(looped.x)])
              ELSE <<>>]

optimize(statements, eng, sc, fn_lib, level) ==
    IF level = "None" THEN [x |-> statements, done |-> TRUE, passes |-> 0, eager |-> <<>>]
    ELSE optimize_retain(
             orun(<<"optimize_loop", statements,
                    [State_new(eng, fn_lib, level) EXCEPT !.constants = scope_constants(sc)],
                    Len(scope_constants(sc)), 0>>))

\* The body of an optimized function: `{ return val; }` is val, `{ return; }` is
\* (), an empty body is a no-op.
fn_body_stmt(last_stmt) ==
    IF last_stmt.k = "ReturnWithVal" /\ last_stmt.typ = "Return"
    THEN IF IsSome(last_stmt.val) THEN Expr(last_stmt.val[1]) ELSE Expr(EUnit)
    ELSE last_stmt
fn_body_pop(body) == fn_body_stmt(IF body = <<>> THEN Noop ELSE body[Len(body)])
optimize_fn_body(eng, fn_def, fn_lib, level) ==
    IF level = "None" THEN fn_def
    ELSE [fn_def EXCEPT
             !.body = fn_body_pop(optimize(<<fn_def.body>>, eng, <<>>, fn_lib, level).x)]

optimize_into_ast(eng, sc, statements, functions, level) ==
    LET fn_lib == {<<f.name, Len(f.params)>> : f \in functions}
    IN  AST(optimize(statements, eng, sc, fn_lib, level).x,
            {optimize_fn_body(eng, f, fn_lib, level) : f \in functions})

(***************************************************************************)
(* The call-depth limit.  The host sets the limit, compiles one of the     *)
(* scripts below and evaluates it on an empty scope.                       *)
(*   foo:   fn foo(n) { if n == 0 { v } else { n + foo(n - 1) } }  foo(k)  *)
(*   leaf:  fn c0() { v }  fn c1() { c0() }  fn c2() { c1() }      ck()    *)
(*   meth:  fn d0(n) { v }  fn d1(n) { n.d0() }  fn d2(n) { n.d1() }       *)
(*          let x = 1; x.dk()                                              *)
(* Each nests k + 1 calls of script functions.                             *)
(***************************************************************************)
MaxDepth == 3
MaxArg == 2
StackLevels == 0..MaxDepth \cup {MAX_CALL_STACK_DEPTH}
StackValues == 0..2

FnFoo(v) ==
    FnDef("foo", <<"n">>,
          Block(<<IfThenElse(Call("==", <<Var("n"), Lit(0)>>),
                             Block(<<Expr(Lit(v))>>),
                             Some(Block(<<Expr(Call("+", <<Var("n"),
                                 Call("foo", <<Call("-", <<Var("n"), Lit(1)>>)>>)>>))>>)))>>))
LeafNames == <<"c0", "c1", "c2", "c3">>
FnLeaf(j, v) ==
    FnDef(LeafNames[j + 1], <<>>,
          Block(<<Expr(IF j = 0 THEN Lit(v) ELSE Call(LeafNames[j], <<>>))>>))
MethNames == <<"d0", "d1", "d2", "d3">>
FnMeth(j, v) ==
    FnDef(MethNames[j + 1], <<"n">>,
          Block(<<Expr(IF j = 0 THEN Lit(v)
                       ELSE Dot(Var("n"), Call(MethNames[j], <<>>)))>>))

ScriptFoo(k, v) == parse(<<Expr(Call("foo", <<Lit(k)>>))>>, {FnFoo(v)})
ScriptLeaf(k, v) ==
    parse(<<Expr(Call(LeafNames[k + 1], <<>>))>>, {FnLeaf(j, v) : j \in 0..k})
ScriptMeth(k, v) ==
    parse(<<Let("x", Some(Lit(1))), Expr(Dot(Var("x"), Call(MethNames[k + 1], <<>>)))>>,
          {FnMeth(j, v) : j \in 0..k})

StackInit ==
    /\ scope = <<>>
    /\ engine = Engine_new
    /\ ast = AST(<<>>, {})
    /\ last = [op |-> "new"]

StackSetMaxCallLevels ==
    \E levels \in StackLevels :
        /\ engine' = set_max_call_levels(engine, levels)
        /\ last' = [op |-> "set_max_call_levels"]
        /\ UNCHANGED <<scope, ast>>

StackCompile ==
    \E k \in 0..MaxArg, v \in StackValues :
        /\ \/ k <= 1 /\ ast' = ScriptFoo(k, v)
                /\ last' = [op |-> "compile", script |-> "foo", k |-> k, v |-> v]
           \/ ast' = ScriptLeaf(k, v)
                /\ last' = [op |-> "compile", script |-> "leaf", k |-> k, v |-> v]
           \/ ast' = ScriptMeth(k, v)
                /\ last' = [op |-> "compile", script |-> "meth", k |-> k, v |-> v]
        /\ UNCHANGED <<scope, engine>>

\* Engine::eval_ast on a new Scope.
StackEval ==
    /\ last.op = "compile"
    /\ LET e == eval_ast_with_scope_raw(engine, ast.fn_lib, ast.statements, Machine(<<>>))
       IN  last' = [op |-> "eval", script |-> last.script, k |-> last.k, v |-> last.v,
                    r |-> e.r, maxnest |-> e.m.maxnest]
    /\ UNCHANGED <<scope, engine, ast>>

StackNext == StackSetMaxCallLevels \/ StackCompile \/ StackEval
SpecStack == StackInit /\ [][StackNext]_vars

IsStackOverflow(r) == ~r.ok /\ r.e.err = "ErrorStackOverflow"

\* C1: with the call-depth limit M, a script whose script function calls nest
\* deeper than M ends with StackOverflow, and a script whose nesting stays
\* within M (here one nesting k + 1 <= M calls) is not rejected with
\* StackOverflow and returns its value.
C1_DepthBound ==
    last.op = "eval" =>
        LET M == engine.max_call_stack_depth
        IN  /\ last.maxnest > M => IsStackOverflow(last.r)
            /\ last.k + 1 <= M =>
                   last.r = Ok(VInt(IF last.script = "foo" /\ last.k = 1 THEN last.v + 1
                                    ELSE last.v))

(***************************************************************************)
(* Function dispatch.  The host registers functions with the engine and    *)
(* loads packages, a compilation gives the script's functions, and a call  *)
(* goes through call_fn_raw at level 0.  Each registration and each load   *)
(* stamps its functions with its own number, and a script function of n    *)
(* parameters returns -(n + 1), so that a result tells who was called.     *)
(***************************************************************************)
MaxRegistrations == 3
DispatchNames == {"f", "g"}
DispatchTypes == {<<>>, <<"i64">>}
DispatchArgs == {<<>>, <<VInt(1)>>, <<VBool(TRUE)>>}
DispatchKeys == {calc_fn_hash(name, types) : name \in DispatchNames, types \in DispatchTypes}
ScriptFn(name, params) ==
    FnDef(name, params, Block(<<Expr(IntegerConstant(0 - (Len(params) + 1)))>>))
DispatchLibs ==
    {{}, {ScriptFn("f", <<"a">>)}, {ScriptFn("f", <<>>)},
     {ScriptFn("f", <<"a">>), ScriptFn("g", <<"a">>)}}

DispatchInit ==
    /\ scope = <<>>
    /\ engine = new_raw
    /\ ast = AST(<<>>, {})
    /\ last = [op |-> "new", n |-> 0]

DispatchRegisterFn ==
    \E name \in DispatchNames, types \in DispatchTypes :
        /\ last.n < MaxRegistrations
        /\ engine' = register_fn(engine, name, types, FnTag(last.n + 1))
        /\ last' = [op |-> "register_fn", n |-> last.n + 1]
        /\ UNCHANGED <<scope, ast>>

DispatchLoadPackage ==
    \E key \in DispatchKeys :
        /\ last.n < MaxRegistrations
        /\ engine' = load_package(engine,
                        PackageLibrary({[key |-> key, fn |-> FnTag(last.n + 1)]}, {},
                                       last.n + 1))
        /\ last' = [op |-> "load_package", n |-> last.n + 1]
        /\ UNCHANGED <<scope, ast>>

DispatchCompile ==
    \E fn_lib \in DispatchLibs :
        /\ ast' = AST(<<>>, fn_lib)
        /\ last' = [op |-> "compile", n |-> last.n]
        /\ UNCHANGED <<scope, engine>>

DispatchCall ==
    \E fn_name \in DispatchNames, args \in DispatchArgs :
        LET c == call_fn_raw(engine, None, ast.fn_lib, fn_name, args, None, 0, Machine(<<>>))
        IN  /\ last' = [op |-> "call", n |-> last.n, fn_name |-> fn_name, args |-> args,
                        r |-> c.r, out |-> c.m.out]
            /\ UNCHANGED <<scope, engine, ast>>

DispatchNext == DispatchRegisterFn \/ DispatchLoadPackage \/ DispatchCompile \/ DispatchCall
SpecDispatch == DispatchInit /\ [][DispatchNext]_vars

\* What the last call was looked up by.
CalledKey == calc_fn_hash(last.fn_name, TypesOf(last.args))
CalledScripted == has_function(ast.fn_lib, last.fn_name, Len(last.args))
CalledRegistered == contains_key(engine.functions, CalledKey)
CalledHolders ==
    {j \in 1..Len(engine.packages) : contains_key(engine.packages[j].functions, CalledKey)}
\* The one function that ran, if exactly one ran.
RanScript(name) == Len(last.out) = 1 /\ last.out[1].ev = "script" /\ last.out[1].name = name
RanNative(func) == Len(last.out) = 1 /\ last.out[1].ev = "native" /\ last.out[1].func = func

\* C2: a call invokes the script function of the same name and argument count if
\* there is one; else the function registered with the engine under the name and
\* argument types; else the function of the most recently loaded package that has
\* one under the name and argument types.
C2_DispatchPrecedence ==
    last.op = "call" =>
        IF CalledScripted
        THEN RanScript(last.fn_name) /\ last.r = Ok(VInt(0 - (Len(last.args) + 1)))
        ELSE IF CalledRegistered
        THEN RanNative(TableGet(engine.functions, CalledKey)[1])
        ELSE CalledHolders # {} =>
               \E j \in CalledHolders :
                   /\ \A h \in CalledHolders :
                          engine.packages[h].loaded <= engine.packages[j].loaded
                   /\ RanNative(TableGet(engine.packages[j].functions, CalledKey)[1])
                   /\ last.r = Ok(VInt(engine.packages[j].loaded))

\* A call found in two packages and nowhere before them ran the later-loaded one's.
C2_Witness ==
    /\ last.op = "call"
    /\ ~CalledScripted
    /\ ~CalledRegistered
    /\ Cardinality(CalledHolders) >= 2
    /\ \E j \in CalledHolders :
           /\ \A h \in CalledHolders \ {j} :
                  engine.packages[h].loaded < engine.packages[j].loaded
           /\ last.r = Ok(VInt(engine.packages[j].loaded))

(***************************************************************************)
(* The host's use of a Scope.                                              *)
(***************************************************************************)
ScopeNames == {"x", "y"}
ScopeValues == {VInt(1), VInt(2), VArr(<<VInt(1)>>)}

ScopeInit ==
    /\ scope = <<>>
    /\ engine = new_raw
    /\ ast = AST(<<>>, {})
    /\ last = [op |-> "new", pushes |-> 0]

ScopePush ==
    \E name \in ScopeNames, value \in ScopeValues :
        /\ Len(scope) < MaxScopeLen
        /\ scope' = push(scope, name, value)
        /\ last' = [op |-> "push", pushes |-> last.pushes + 1]
        /\ UNCHANGED <<engine, ast>>

ScopePushConstant ==
    \E name \in ScopeNames, value \in ScopeValues :
        /\ Len(scope) < MaxScopeLen
        /\ scope' = push_constant(scope, name, value)
        /\ last' = [op |-> "push_constant", pushes |-> last.pushes + 1]
        /\ UNCHANGED <<engine, ast>>

ScopeRewind ==
    \E size \in 0..(MaxScopeLen + 1) :
        /\ scope' = rewind(scope, size)
        /\ last' = [op |-> "rewind", pushes |-> 0, size |-> size, before |-> scope]
        /\ UNCHANGED <<engine, ast>>

ScopeNext == ScopePush \/ ScopePushConstant \/ ScopeRewind

SpecScope == ScopeInit /\ [][ScopeNext]_vars

(***************************************************************************)
(* C9 (as stated): after pushes and rewind(N), len() == N and the first N  *)
(* entries are unchanged, for any N.                                       *)
(***************************************************************************)
C9_RewindLenIsN ==
    last.op = "rewind" =>
        /\ Len(scope) = last.size
        /\ \A j \in 1..last.size : j <= Len(scope) /\ scope[j] = last.before[j]

(***************************************************************************)
(* C9 (amended): after pushes and rewind(N), len() is the smaller of N and *)
(* the length before the rewind (so len() == N whenever N does not exceed  *)
(* the length reached), and the entries that remain are the first entries  *)
(* of the scope before the rewind, name, kind and value unchanged.         *)
(***************************************************************************)
C9_RewindTruncates ==
    last.op = "rewind" =>
        /\ Len(scope) = Min(last.size, Len(last.before))
        /\ \A j \in 1..Len(scope) : scope[j] = last.before[j]

\* A rewind that removed entries and kept some.
C9_Witness ==
    /\ last.op = "rewind"
    /\ 0 < last.size
    /\ last.size < Len(last.before)
    /\ Len(scope) = last.size

(***************************************************************************)
(* Dot and index chains.  The host makes a Scope holding one entry, a      *)
(* variable x or a constant K, and has the engine evaluate one script on   *)
(* it: an assignment through a chain followed, when it succeeds, by a read *)
(* of the same chain; a read; or a method-style call.  The engine has the  *)
(* host types Outer { p: Inner } and Inner { q: i64 }, with a getter and a *)
(* setter for each property and a mutable getter for p, and the functions  *)
(* reset and clear.                                                        *)
(***************************************************************************)
MaxIndex == 2

ChainEngine ==
    LET e1 == register_fn(Engine_new, "reset", <<"i64">>, FnReset)
        e2 == register_fn(e1, "clear", <<"array">>, FnClear)
        e3 == register_fn(e2, make_getter("q"), <<"Inner">>, FnGetter("q"))
        e4 == register_fn(e3, make_setter("q"), <<"Inner", "i64">>, FnSetter("q"))
        e5 == register_fn(e4, make_getter("p"), <<"Outer">>, FnGetter("p"))
        e6 == register_fn(e5, make_setter("p"), <<"Outer", "Inner">>, FnSetter("p"))
    IN  register_get_mut(e6, "p", "Outer")

NewInner(q) == VObj("Inner", [q |-> VInt(q)])
ChainShapes ==
    {VInt(3),
     VStr(<<"a", "b", "c">>),
     VArr(<<VInt(7), VArr(<<VInt(8)>>)>>),
     VMap([key \in {<<"p">>} |-> VMap([key2 \in {<<"q">>} |-> VInt(1)])]),
     VMap([key \in {<<"p">>} |-> NewInner(1)]),
     VArr(<<NewInner(1)>>),
     VObj("Outer", [p |-> NewInner(1)])}
ChainValues == {VInt(5), VChar("X"), VChar("b"), NewInner(2)}

\* The steps of a chain: .p, .q and [i].
ChainSteps == {StepField("p"), StepField("q")} \cup {StepIdx(i) : i \in -1..MaxIndex}
ChainPaths == {<<>>} \cup {<<s>> : s \in ChainSteps} \cup {<<s, t>> : s, t \in ChainSteps}

\* The expression of a value the scripts assign.
ValueExpr(v) ==
    CASE v.t = "i64" -> IntegerConstant(v.i)
      [] v.t = "char" -> CharConstant(v.c)
      [] v.t = "Inner" -> Variable("inner", 0)
\* The syntax tree of `root steps`: the chain nests to the right.
StepExpr(step) == IF step.s = "field" THEN Property(step.key) ELSE IntegerConstant(step.i)
StepNode(step, lhs, rhs) == IF step.s = "field" THEN Dot(lhs, rhs) ELSE Index(lhs, rhs)
ChainExpr(root, steps) ==
    CASE Len(steps) = 0 -> Variable(root, 0)
      [] Len(steps) = 1 -> StepNode(steps[1], Variable(root, 0), StepExpr(steps[1]))
      [] Len(steps) = 2 ->
           StepNode(steps[1], Variable(root, 0),
                    StepNode(steps[2], StepExpr(steps[1]), StepExpr(steps[2])))

ChainInit ==
    /\ scope = <<>>
    /\ engine = ChainEngine
    /\ ast = AST(<<>>, {})
    /\ last = [op |-> "new"]

\* Scope::new, then push or push_constant.
ChainPush ==
    \E value \in ChainShapes :
        /\ last.op # "push"
        /\ \/ scope' = push(<<>>, "x", value)
           \/ scope' = push_constant(<<>>, "K", value)
        /\ last' = [op |-> "push"]
        /\ UNCHANGED <<engine, ast>>

\* Engine::eval_with_scope of one script: compiled, run on the scope and dropped.
Eval(script, sc) ==
    eval_ast_with_scope_raw(engine, script.fn_lib, script.statements, Machine(sc))

\* `root steps = v`, and after a success `root steps`.
ChainAssigned(steps, v, w, b) ==
    /\ scope' = IF w.r.ok /\ ~IsPanic(b.r) THEN b.m.scope ELSE w.m.scope
    /\ last' = [op |-> "assign", steps |-> steps, v |-> v, before |-> scope,
                r |-> w.r, wrote |-> w.m.scope, back |-> IF w.r.ok THEN Some(b.r) ELSE None]
ChainWrote(steps, v, read, w) == ChainAssigned(steps, v, w, Eval(read, w.m.scope))
ChainAssign ==
    \E steps \in ChainPaths, v \in ChainValues :
        LET root == scope[1].name
            held == IF v.t = "Inner" THEN push(scope, "inner", v) ELSE scope
            write == parse(<<Expr(Assignment(ChainExpr(root, steps), ValueExpr(v)))>>, {})
            read == parse(<<Expr(ChainExpr(root, steps))>>, {})
        IN  /\ last.op = "push"
            /\ ChainWrote(steps, v, read, Eval(write, held))
            /\ UNCHANGED <<engine, ast>>

\* `root steps`
ChainEvaluated(op, steps, e) ==
    /\ scope' = e.m.scope
    /\ last' = [op |-> op, steps |-> steps, before |-> scope, r |-> e.r, wrote |-> e.m.scope]
ChainRead ==
    \E steps \in ChainPaths :
        /\ last.op = "push"
        /\ ChainEvaluated("read", steps,
                          Eval(parse(<<Expr(ChainExpr(scope[1].name, steps))>>, {}), scope))
        /\ UNCHANGED <<engine, ast>>

\* `root.reset()` or `root.clear()`
ChainCall ==
    \E fn_name \in {"reset", "clear"} :
        /\ last.op = "push"
        /\ ChainEvaluated("call", <<fn_name>>,
                          Eval(parse(<<Expr(Dot(Variable(scope[1].name, 0),
                                                 Call(fn_name, <<>>)))>>, {}), scope))
        /\ UNCHANGED <<engine, ast>>

ChainNext == ChainPush \/ ChainAssign \/ ChainRead \/ ChainCall
SpecChain == ChainInit /\ [][ChainNext]_vars

ChainRoot == last.before[1]
ChainEvalOps == {"assign", "read", "call"}

C5_ConstantKeepsValue ==
    last.op \in ChainEvalOps /\ ChainRoot.typ = Constant => scope[1] = ChainRoot

\* C6: when the assignment `lhs steps = v` succeeds, the read `lhs steps` that
\* follows it succeeds and gives v.
C6_RoundTrip ==
    last.op = "assign" /\ last.r.ok => last.back = Some(Ok(last.v))

\* The element one plain step into an array or a map, if there is one.
Sub(val, step) ==
    CASE step.s = "idx" /\ val.t = "array" /\ step.i >= 0 /\ step.i < Len(val.a) ->
           Some(val.a[step.i + 1])
      [] step.s = "field" /\ val.t = "map" /\ <<step.key>> \in DOMAIN val.m ->
           Some(val.m[<<step.key>>])
      [] OTHER -> None
WithSub(val, step, new) ==
    IF step.s = "idx" THEN VArr([val.a EXCEPT ![step.i + 1] = new])
    ELSE VMap([val.m EXCEPT ![<<step.key>>] = new])
\* The value the chain's last step acts on.
ChainInner ==
    IF Len(last.steps) = 1 THEN Some(ChainRoot.value) ELSE Sub(ChainRoot.value, last.steps[1])
ChainLastStep == last.steps[Len(last.steps)]
ChainWritten(new) ==
    IF Len(last.steps) = 1 THEN new ELSE WithSub(ChainRoot.value, last.steps[1], new)
ChainIndexes(type) ==
    /\ last.op \in {"assign", "read"}
    /\ last.op = "assign" => ChainRoot.typ = Normal
    /\ Len(last.steps) >= 1
    /\ ChainLastStep.s = "idx"
    /\ IsSome(ChainInner)
    /\ ChainInner[1].t = type

\* C7: indexing an array of length L with the integer i, to read or to write,
\* succeeds iff 0 <= i < L; otherwise it fails with ArrayBounds(L, i) and the
\* array is as before.  A read gives the element, a write replaces it.
C7_ArrayIndex ==
    ChainIndexes("array") =>
        LET arr == ChainInner[1]
            L == Len(arr.a)
            i == ChainLastStep.i
        IN  IF 0 <= i /\ i < L
            THEN IF last.op = "read"
                 THEN last.r = Ok(arr.a[i + 1]) /\ last.wrote[1] = ChainRoot
                 ELSE /\ last.r = Ok(VUnit)
                      /\ last.wrote[1].value = ChainWritten(WithSub(arr, ChainLastStep, last.v))
            ELSE /\ last.r = Err(EvalAltResult("ErrorArrayBounds", <<L, i>>))
                 /\ last.wrote[1] = ChainRoot
C7_Witness ==
    /\ ChainIndexes("array") /\ last.op = "assign"
    /\ ChainLastStep.i = Len(ChainInner[1].a)
    /\ last.r = Err(EvalAltResult("ErrorArrayBounds", <<2, 2>>))
    /\ scope[1].value = ChainRoot.value

\* C8: for a string s and an integer i within its length, `s[i]` gives the
\* character at i, and `s[i] = c` succeeds and leaves s with c at i and every
\* other character as it was.
C8_StringIndex ==
    ChainIndexes("string") /\ Len(last.steps) = 1
        /\ ChainLastStep.i >= 0 /\ ChainLastStep.i < Len(ChainRoot.value.s)
        /\ (last.op = "assign" => last.v.t = "char") =>
        LET str == ChainRoot.value.s
            i == ChainLastStep.i
        IN  IF last.op = "read" THEN last.r = Ok(VChar(str[i + 1]))
            ELSE /\ last.r = Ok(VUnit)
                 /\ last.wrote[1].value = VStr([str EXCEPT ![i + 1] = last.v.c])
                 /\ last.back = Some(Ok(last.v))

(***************************************************************************)
(* Blocks.  The host makes a Scope, empty or holding x = 10, and has the   *)
(* engine evaluate a script on it: an optional `let x = 10;`, one block    *)
(* whose statements are drawn from BlockStmts, and an optional read of x   *)
(* after the block.                                                        *)
(***************************************************************************)
MaxBlockLen == 2

BlockStmts ==
    {Let("x", Some(Lit(1))), Let("y", Some(Lit(2))), Const("K", Lit(3)),
     Expr(Assignment(Var("x"), Lit(5))), Expr(Var("x")), Expr(Var("y")),
     ReturnWithVal(Some(Lit(7)), "Return"), ReturnWithVal(None, "Exception"), Break,
     Block(<<Let("x", Some(Lit(4))), Expr(Var("y"))>>)}
BlockBodies == UNION {[1..n -> BlockStmts] : n \in 0..MaxBlockLen}
BlockScript(decl, body, tail) ==
    parse((IF decl THEN <<Let("x", Some(Lit(10)))>> ELSE <<>>)
              \o <<Block(body)>>
              \o (IF tail THEN <<Expr(Var("x"))>> ELSE <<>>), {})

BlockInit ==
    /\ scope = <<>>
    /\ engine = Engine_new
    /\ ast = AST(<<>>, {})
    /\ last = [op |-> "new"]

\* Scope::new, and push for the variable.
BlockPush ==
    /\ last.op # "push"
    /\ \/ scope' = <<>>
       \/ scope' = push(<<>>, "x", VInt(10))
    /\ last' = [op |-> "push"]
    /\ UNCHANGED <<engine, ast>>

BlockEvaluated(decl, body, tail, e) ==
    /\ scope' = e.m.scope
    /\ last' = [op |-> "eval", decl |-> decl, body |-> body, tail |-> tail,
                before |-> scope, r |-> e.r]
BlockEval ==
    \E decl \in BOOLEAN, body \in BlockBodies, tail \in BOOLEAN :
        /\ last.op = "push"
        /\ BlockEvaluated(decl, body, tail, Eval(BlockScript(decl, body, tail), scope))
        /\ UNCHANGED <<engine, ast>>

BlockNext == BlockPush \/ BlockEval
SpecBlock == BlockInit /\ [][BlockNext]_vars

\* The entries outside the block: the host's, and the script's own `let x`.
BlockOuter ==
    IF last.decl THEN push(last.before, "x", VInt(10)) ELSE last.before
BlockReturns == \E j \in 1..Len(last.body) : last.body[j].k = "ReturnWithVal"

MaxStmts == 2
MaxFuel == 2

OptLevels == {"None", "Simple", "Full"}
OptStmts ==
    {Block(<<Let("y", Some(Call("+", <<Lit(1), Lit(2)>>)))>>),
     Let("x", Some(Lit(1))),
     Const("K", Lit(3)),
     Expr(Var("x")),
     Expr(Var("K")),
     Expr(Var("y")),
     Expr(Assignment(Var("x"), Call("+", <<Var("x"), Lit(1)>>))),
     Expr(And(ETrue, Lit(5))),
     IfThenElse(ETrue, Block(<<Let("x", Some(Lit(2))), Expr(Var("x"))>>), None),
     While(EFalse, Block(<<Expr(Var("y"))>>)),
     Loop(Block(<<Break>>))}
OptScripts == UNION {[1..n -> OptStmts] : n \in 1..MaxStmts}
OptScopes ==
    {<<>>, push(<<>>, "x", VInt(10)), push_constant(<<>>, "K", VInt(7))}

OptInit ==
    /\ scope = <<>>
    /\ engine = Engine_new
    /\ ast = AST(<<>>, {})
    /\ last = [op |-> "new"]

\* Engine::set_optimization_level
OptSetLevel ==
    \E level \in OptLevels :
        /\ last.op = "new"
        /\ engine' = set_optimization_level(engine, level)
        /\ last' = [op |-> "level"]
        /\ UNCHANGED <<scope, ast>>

\* Scope::new, and push or push_constant
OptPush ==
    \E sc \in OptScopes :
        /\ last.op \in {"level", "eval"}
        /\ scope' = sc
        /\ last' = [op |-> "push"]
        /\ UNCHANGED <<engine, ast>>

OptRun(statements, sc) ==
    eval_ast_with_scope_raw(engine, {}, statements, [Machine(sc) EXCEPT !.fuel = MaxFuel])
OptRan(script, raw, optimized, e) ==
    /\ scope' = e.m.scope
    /\ last' = [op |-> "eval", script |-> script, before |-> scope,
                tree |-> optimized.x, done |-> optimized.done,
                passes |-> optimized.passes, stale0 |-> raw.m.stale, stale |-> e.m.stale,
                r0 |-> raw.r, scope0 |-> raw.m.scope, r |-> e.r]
OptOptimized(script, parsed, optimized) ==
    OptRan(script, OptRun(parsed, scope), optimized, OptRun(optimized.x, scope))
OptParsed(script, parsed) ==
    OptOptimized(script, parsed,
                 optimize(parsed, engine, scope, {}, engine.optimization_level))
\* Engine::eval_with_scope
OptEval ==
    \E script \in OptScripts :
        /\ last.op = "push"
        /\ OptParsed(script, parse(script, {}).statements)
        /\ UNCHANGED <<engine, ast>>

OptNext == OptSetLevel \/ OptPush \/ OptEval
SpecOpt == OptInit /\ [][OptNext]_vars

SameKind(a, b) == IF a.ok THEN b = a ELSE ~b.ok /\ b.e.err = a.e.err

\* C3: at level Simple the optimized script gives what the unoptimized script
\* gives from the same initial scope: the same value or the same kind of
\* error, and the same final scope.
C3_SameOutcome ==
    last.op = "eval" /\ engine.optimization_level = "Simple" =>
        SameKind(last.r0, last.r) /\ scope = last.scope0

(***************************************************************************)
(* eval inside a block.  The host evaluates a script that is one block B;  *)
(* B's statements declare x, call eval on a text that declares z, run a    *)
(* nested block, and read or assign x.  For the record the same block is   *)
(* also run with no cached offsets at all, so that every variable in it is *)
(* found by name.                                                          *)
(***************************************************************************)
MaxEvalLen == 4

EvalText == <<"l", "e", "t", " ", "z", "=", "5", ";">>
EvalCall == Expr(Call(KEYWORD_EVAL, <<StringConstant(EvalText)>>))
EvalInner == Block(<<Let("y", Some(Lit(1)))>>)
EvalReadX == Expr(Var("x"))
EvalWriteX == Expr(Assignment(Var("x"), Lit(7)))
EvalStmts == {Let("x", Some(Lit(10))), EvalCall, EvalInner, EvalReadX, EvalWriteX}
EvalBodies == UNION {[1..n -> EvalStmts] : n \in 1..MaxEvalLen}

EvalInit ==
    /\ scope = <<>>
    /\ engine = Engine_new
    /\ ast = AST(<<>>, {})
    /\ last = [op |-> "new"]

\* Scope::new, and push for the host's x
EvalPush ==
    /\ last.op # "push"
    /\ \/ scope' = <<>>
       \/ scope' = push(<<>>, "x", VInt(3))
    /\ last' = [op |-> "push"]
    /\ UNCHANGED <<engine, ast>>

EvalRan(body, e, named) ==
    /\ scope' = e.m.scope
    /\ last' = [op |-> "eval", body |-> body, before |-> scope, r |-> e.r,
                r_named |-> named.r, scope_named |-> named.m.scope]
\* Engine::eval_with_scope of `{ body }`
EvalBlock ==
    \E body \in EvalBodies :
        /\ last.op = "push"
        /\ EvalRan(body, Eval(parse(<<Block(body)>>, {}), scope),
                   Eval(AST(<<Block(body)>>, {}), scope))
        /\ UNCHANGED <<engine, ast>>

EvalNext == EvalPush \/ EvalBlock
SpecEval == EvalInit /\ [][EvalNext]_vars

\* B calls eval and reads or assigns x later on.
EvalThenAccess ==
    \E i, j \in 1..Len(last.body) :
        i < j /\ last.body[i] = EvalCall /\ last.body[j] \in {EvalReadX, EvalWriteX}

\* C11: once eval has added z inside B, every later read and assignment in B
\* finds its variable by name: B gives the value, and leaves the scope, that
\* it gives when no access in it uses a cached offset, also when a nested
\* block of B has finished in between.
C11_SearchAfterEval ==
    last.op = "eval" /\ EvalThenAccess =>
        last.r = last.r_named /\ scope = last.scope_named

(***************************************************************************)
(* Two evaluations of one script.  The host evaluates a script on a scope, *)
(* may evaluate other scripts on what is left, puts a scope equal to the   *)
(* first one in place again and evaluates the first script once more, all  *)
(* on the same engine.  Each evaluation is Engine::eval_with_scope: the    *)
(* script is parsed, optimized at the engine's level against the scope and *)
(* run with a State of its own.                                            *)
(***************************************************************************)
MaxTwiceLen == 2

TwiceStmts ==
    {Let("x", Some(Call("+", <<Lit(1), Lit(2)>>))),
     Const("K", Lit(3)),
     Expr(Assignment(Var("x"), Call("+", <<Var("x"), Lit(1)>>))),
     Expr(Var("x")),
     Expr(Var("K")),
     EvalCall,
     EvalInner,
     IfThenElse(Call("==", <<Var("x"), Lit(3)>>), Block(<<Expr(Lit(1))>>),
                Some(Block(<<ReturnWithVal(None, "Exception")>>))),
     While(ETrue, Block(<<Break>>))}
TwiceScripts == UNION {[1..n -> TwiceStmts] : n \in 1..MaxTwiceLen}
TwiceScopes == {<<>>, push(<<>>, "x", VInt(3)), push_constant(<<>>, "x", VInt(4))}

\* An evaluation borrows the engine as &self: the engine after it is the
\* engine before it.
SelfAfter_forgets(self, e) == new_raw
SelfAfter(self, e) == self

TwiceRun(script, sc) ==
    OptRun(optimize(parse(script, {}).statements, engine, sc, {},
                    engine.optimization_level).x, sc)

TwiceInit ==
    /\ scope = <<>>
    /\ engine = Engine_new
    /\ ast = AST(<<>>, {})
    /\ last = [op |-> "new"]

\* Scope::new, and push or push_constant
TwicePush ==
    \E sc \in TwiceScopes :
        /\ last.op \in {"new", "second"}
        /\ scope' = sc
        /\ last' = [op |-> "push"]
        /\ UNCHANGED <<engine, ast>>

TwiceFirstRan(script, e) ==
    /\ scope' = e.m.scope
    /\ engine' = SelfAfter(engine, e)
    /\ last' = [op |-> "first", script |-> script, initial |-> scope,
                r1 |-> e.r, scope1 |-> e.m.scope]
\* the first Engine::eval_with_scope
TwiceFirst ==
    \E script \in TwiceScripts :
        /\ last.op = "push"
        /\ TwiceFirstRan(script, TwiceRun(script, scope))
        /\ UNCHANGED ast

TwiceOtherRan(e) ==
    /\ scope' = e.m.scope
    /\ engine' = SelfAfter(engine, e)
    /\ last' = [last EXCEPT !.op = "other"]
\* another Engine::eval_with_scope in between
TwiceOther ==
    \E stmt \in TwiceStmts :
        /\ last.op = "first"
        /\ TwiceOtherRan(TwiceRun(<<stmt>>, scope))
        /\ UNCHANGED ast

\* The host puts a scope equal to the initial one in place.
TwiceRestore ==
    /\ last.op \in {"first", "other"}
    /\ scope' = last.initial
    /\ last' = [last EXCEPT !.op = "restored"]
    /\ UNCHANGED <<engine, ast>>

TwiceSecondRan(e) ==
    /\ scope' = e.m.scope
    /\ engine' = SelfAfter(engine, e)
    /\ last' = [op |-> "second", script |-> last.script, initial |-> last.initial,
                r1 |-> last.r1, scope1 |-> last.scope1, r2 |-> e.r]
\* the second Engine::eval_with_scope of the same script
TwiceSecond ==
    /\ last.op = "restored"
    /\ TwiceSecondRan(TwiceRun(last.script, scope))
    /\ UNCHANGED ast

TwiceNext == TwicePush \/ TwiceFirst \/ TwiceOther \/ TwiceRestore \/ TwiceSecond
SpecTwice == TwiceInit /\ [][TwiceNext]_vars

LookupNames == ScopeNames \cup {"z"}
\* The positions (1-based) of the entries of a name, and the newest of them.
Live(name) == {j \in 1..Len(scope) : scope[j].name = name}
IsNewest(name, j) == j \in Live(name) /\ \A h \in Live(name) : h <= j
\* What a script reading the variable by name gets.
ReadByName(name) == Eval(AST(<<Expr(Variable(name, 0))>>, {}), scope)

\* C13: a lookup by name (get, get_value, contains, the evaluator's search
\* and a script's read) gives the entry pushed last among the entries of that
\* name not removed by a rewind, and nothing when there is none; an older
\* entry is given exactly when no newer one of its name is left.
C13_NewestShadows ==
    \A name \in LookupNames :
        IF Live(name) = {}
        THEN /\ get(scope, name) = None
             /\ get_value(scope, name) = None
             /\ ~contains(scope, name)
             /\ search_scope(scope, name, 0) = Err(EvalAltResult("ErrorVariableNotFound", <<name>>))
             /\ ~ReadByName(name).r.ok
        ELSE \E j \in 1..Len(scope) :
                 /\ IsNewest(name, j)
                 /\ get(scope, name) = Some([index |-> j - 1, typ |-> scope[j].typ])
                 /\ get_value(scope, name) = Some(scope[j].value)
                 /\ contains(scope, name)
                 /\ search_scope(scope, name, 0) = Ok([index |-> j - 1, typ |-> scope[j].typ])
                 /\ ReadByName(name).r = Ok(scope[j].value)
                 /\ ReadByName(name).m.scope = scope
\* A rewind took a newer x away and the older x, of another value, is found again.
C13_Witness ==
    /\ last.op = "rewind"
    /\ Len(scope) = 1 /\ Len(last.before) = 3
    /\ scope[1].name = "x" /\ last.before[2].name = "x" /\ last.before[3].name = "y"
    /\ last.before[2].value # scope[1].value
    /\ get_value(last.before, "x") = Some(last.before[2].value)
    /\ get_value(scope, "x") = Some(scope[1].value)

(***************************************************************************)
(* A call that finds no function (tests/mismatched_op.rs): the host        *)
(* registers TestStruct under a name and its constructor new_ts, and a     *)
(* script calls a function or an operator on 60, new_ts() and true.        *)
(***************************************************************************)
MaxMismatchArgs == 2
\* std::any::type_name::<TestStruct>() and the name the host registers for it.
TestStructType == "mismatched_op::TestStruct"
TestStructName == "TestStruct"
TestStruct_new == VObj(TestStructType, [x |-> VInt(1)])
\* Engine::register_type_with_name
register_type_with_name(self, ty, name) ==
    [self EXCEPT !.type_names = TableInsert(self.type_names, ty, name)]

MismatchNames == {"+", "-", "h", "new_ts"}
MismatchOperands == {Lit(60), Call("new_ts", <<>>), ETrue}
MismatchArgs ==
    UNION {[1..n -> MismatchOperands] : n \in 0..MaxMismatchArgs}
MismatchLibs == {{}, {ScriptFn("h", <<"a">>)}, {ScriptFn("h", <<"a", "b">>)}}
MismatchDefaults == {None, Some(VBool(FALSE))}

MismatchInit ==
    /\ scope = <<>>
    /\ engine = Engine_new
    /\ ast = AST(<<>>, {})
    /\ last = [op |-> "new", named |-> FALSE, made |-> FALSE]

\* engine.register_type_with_name::<TestStruct>("TestStruct")
MismatchRegisterType ==
    /\ ~last.named
    /\ engine' = register_type_with_name(engine, TestStructType, TestStructName)
    /\ last' = [op |-> "register_type", named |-> TRUE, made |-> last.made]
    /\ UNCHANGED <<scope, ast>>

\* engine.register_fn("new_ts", TestStruct::new)
MismatchRegisterNew ==
    /\ ~last.made
    /\ engine' = register_fn(engine, "new_ts", <<>>, FnNew(TestStruct_new))
    /\ last' = [op |-> "register_fn", named |-> last.named, made |-> TRUE]
    /\ UNCHANGED <<scope, ast>>

\* engine.register_fn("h", |x: TestStruct| ...) and the same on an i64
MismatchRegisterFn ==
    \E ty \in {TestStructType, "i64"} :
        /\ engine' = register_fn(engine, "h", <<ty>>, FnTag(1))
        /\ last' = [op |-> "register_fn", named |-> last.named, made |-> last.made]
        /\ UNCHANGED <<scope, ast>>

MismatchRan(fn_name, args, def, fn_lib, e) ==
    last' = [op |-> "eval", named |-> last.named, made |-> last.made,
             fn_name |-> fn_name, args |-> args, def |-> def, fn_lib |-> fn_lib,
             r |-> e.r, out |-> e.m.out]
\* Engine::eval of `fn_name(args)`, or `a fn_name b`, with the script functions fn_lib
MismatchEval ==
    \E fn_name \in MismatchNames, args \in MismatchArgs, def \in MismatchDefaults,
       fn_lib \in MismatchLibs :
        /\ last.made /\ last.op # "eval"
        /\ MismatchRan(fn_name, args, def, fn_lib,
                       Eval(parse(<<Expr(FnCall(fn_name, args, def))>>, fn_lib), <<>>))
        /\ UNCHANGED <<scope, engine, ast>>

MismatchNext ==
    MismatchRegisterType \/ MismatchRegisterNew \/ MismatchRegisterFn \/ MismatchEval
SpecMismatch == MismatchInit /\ [][MismatchNext]_vars

\* The value of each argument of the last call, and the name it is shown by.
MismatchValue(arg) ==
    CASE arg = Lit(60) -> VInt(60)
      [] arg = ETrue -> VBool(TRUE)
      [] arg = Call("new_ts", <<>>) -> TestStruct_new
MismatchTypes == [j \in 1..Len(last.args) |-> MismatchValue(last.args[j]).t]
MismatchShown ==
    [j \in 1..Len(last.args) |->
        IF MismatchTypes[j] = TestStructType /\ last.named THEN TestStructName
        ELSE MismatchTypes[j]]
\* The last call has a script function of its name and arity, or a native
\* function of its name and argument types in the engine or in a package.
MismatchFound ==
    \/ \E d \in last.fn_lib : d.name = last.fn_name /\ Len(d.params) = Len(last.args)
    \/ \E e \in engine.functions : e.key = <<last.fn_name, MismatchTypes>>
    \/ \E j \in 1..Len(engine.packages) :
           \E e \in engine.packages[j].functions : e.key = <<last.fn_name, MismatchTypes>>
\* The functions that ran are the constructors of the arguments.
MismatchOnlyArgsRan ==
    /\ Len(last.out) = Cardinality({j \in 1..Len(last.args) : last.args[j] = Call("new_ts", <<>>)})
    /\ \A j \in 1..Len(last.out) :
           last.out[j].ev = "native" /\ last.out[j].func = FnNew(TestStruct_new)

\* C14: a call with no script function of its name and arity, no native
\* function of its name and argument types in the engine or any package, and
\* no default value fails with FunctionNotFound whose text is the name, then
\* the display names of the argument types in order, and runs no function.
C14_NotFoundSignature ==
    last.op = "eval" /\ ~MismatchFound /\ last.def = None =>
        /\ last.r = Err(EvalAltResult("ErrorFunctionNotFound",
                        <<<<last.fn_name, " (">> \o Join(MismatchShown, ", ") \o <<")">>>>))
        /\ MismatchOnlyArgsRan
\* `60 + new_ts()` fails with "+ (i64, TestStruct)".
C14_Witness ==
    /\ last.op = "eval" /\ last.named /\ last.def = None
    /\ last.fn_name = "+" /\ last.args = <<Lit(60), Call("new_ts", <<>>)>>
    /\ ~MismatchFound
    /\ last.r = Err(EvalAltResult("ErrorFunctionNotFound",
                    <<<<"+", " (", "i64", ", ", "TestStruct", ")">>>>))

(***************************************************************************)
(* The call depth of calls made inside a dot chain, over SpecStack: the    *)
(* script `let x = 1; x.dk()` where each dj is fn dj(n) { n.d(j-1)() }     *)
(* nests k + 1 script functions through method-style calls only.           *)
(***************************************************************************)
\* C15: calls made from inside a dot chain count toward the call-depth limit:
\* when functions nest only through method-style calls and deeper than the
\* limit allows (the call of d0 would be at level k above the limit), the
\* evaluation is stopped with StackOverflow.
C15_ChainCallsCounted ==
    last.op = "eval" /\ last.script = "meth" /\ last.k > engine.max_call_stack_depth =>
        last.r = Err(EvalAltResult("ErrorStackOverflow", <<>>))

(***************************************************************************)
(* Calls of a script function fn f(p, q) { body }: from a script on the    *)
(* variables x and a of the caller's scope, as x.f(a) and as f(x, a), and  *)
(* from the host on a scope it passes in.                                  *)
(***************************************************************************)
ArgsValues == {VInt(1), VInt(2), VArr(<<VInt(1)>>)}
\* The bodies: a read of p, an assignment to p, a return, a throw, a local
\* variable, and an assignment to the variable x of whoever called.
ArgsBodies ==
    <<Block(<<Expr(Var("p"))>>),
      Block(<<Expr(Assignment(Var("p"), Var("q"))), Expr(Var("p"))>>),
      Block(<<ReturnWithVal(Some(Var("q")), "Return"), Expr(Var("p"))>>),
      Block(<<ReturnWithVal(None, "Exception"), Expr(Var("p"))>>),
      Block(<<Let("t", Some(Var("p"))), Expr(Var("t"))>>),
      Block(<<Expr(Assignment(Var("x"), Lit(9)))>>)>>
AssignsOuter == Len(ArgsBodies)
ArgsLib(b) == {FnDef("f", <<"p", "q">>, ArgsBodies[b])}
ArgsShapes ==
    [method |-> Dot(Var("x"), Call("f", <<Var("a")>>)),
     plain |-> Call("f", <<Var("x"), Var("a")>>)]

ArgsInit ==
    /\ scope = <<>>
    /\ engine = Engine_new
    /\ ast = AST(<<>>, {})
    /\ last = [op |-> "new"]

\* Scope::new, and push of x and of a
ArgsPush ==
    /\ last.op # "push"
    /\ \/ scope' = <<>>
       \/ \E vx, va \in ArgsValues : scope' = push(push(<<>>, "x", vx), "a", va)
    /\ last' = [op |-> "push"]
    /\ UNCHANGED <<engine, ast>>

ArgsCalled(b, shape, e) ==
    /\ scope' = e.m.scope
    /\ last' = [op |-> "call", b |-> b, shape |-> shape, before |-> scope, r |-> e.r]
\* Engine::eval_with_scope of `x.f(a)` and of `f(x, a)`
ArgsCall ==
    \E b \in 1..Len(ArgsBodies), shape \in {"method", "plain"} :
        /\ last.op = "push" /\ scope # <<>>
        /\ ArgsCalled(b, shape, Eval(parse(<<Expr(ArgsShapes[shape])>>, ArgsLib(b)), scope))
        /\ UNCHANGED <<engine, ast>>

ArgsCalledFn(b, args, c) ==
    /\ scope' = c.scope[1]
    /\ last' = [op |-> "call_fn", b |-> b, args |-> args, before |-> scope, r |-> c.r]
\* Engine::call_fn(&mut scope, &ast, "f", (v, w)): call_fn_from_lib on the host's scope
ArgsCallFn ==
    \E b \in 1..Len(ArgsBodies), v, w \in ArgsValues :
        /\ last.op = "push"
        /\ ArgsCalledFn(b, <<v, w>>,
                        run(<<"call_fn_from_lib", engine, Some(scope), parse(<<>>, ArgsLib(b)).fn_lib,
                              CHOOSE d \in parse(<<>>, ArgsLib(b)).fn_lib : TRUE, <<v, w>>, 0,
                              Machine(<<>>)>>))
        /\ UNCHANGED <<engine, ast>>

ArgsNext == ArgsPush \/ ArgsCall \/ ArgsCallFn
SpecArgs == ArgsInit /\ [][ArgsNext]_vars

\* C16: after `x.f(a)` or `f(x, a)` with f script-defined and a body that does
\* not assign to the caller's variables, x and a hold in the caller's scope
\* the values they had before the call.
C16_ArgumentsKept ==
    last.op = "call" /\ last.b # AssignsOuter => scope = last.before

\* What the call of f(v, w) by the host gives, for each body.
ArgsExpected ==
    CASE last.b = 1 -> Ok(last.args[1])
      [] last.b = 2 -> Ok(last.args[2])
      [] last.b = 3 -> Ok(last.args[2])
      [] last.b = 4 -> Err(EvalAltResult("ErrorRuntime", <<<<>>>>))
      [] last.b = 5 -> Ok(last.args[1])
      [] last.b = AssignsOuter ->
           IF last.before = <<>> THEN Err(EvalAltResult("ErrorVariableNotFound", <<"x">>))
           ELSE Ok(VUnit)
\* The caller's scope with 9 assigned to its x.
ArgsOuterAssigned == [last.before EXCEPT ![1].value = VInt(9)]

OrderArrays ==
    {VArr(<<VArr(<<VInt(1), VInt(2)>>), VArr(<<VInt(3), VInt(4)>>)>>),
     VArr(<<VArr(<<VInt(5), VInt(6)>>), VArr(<<VInt(7), VInt(8)>>)>>)}
OrderEngine ==
    LET e1 == register_fn(Engine_new, "mk", <<>>,
                          FnNew(VArr(<<VArr(<<VInt(1), VInt(2)>>), VArr(<<VInt(3), VInt(4)>>)>>)))
        e2 == register_fn(e1, "i0", <<>>, FnNew(VInt(0)))
        e3 == register_fn(e2, "i1", <<>>, FnNew(VInt(1)))
        e4 == register_fn(e3, "m", <<"array", "i64">>, FnTag(1))
    IN  register_fn(e4, "m", <<"array", "i64", "i64">>, FnTag(2))
OrderRoots == {Var("a"), Call("mk", <<>>)}
OrderIndexes == {Lit(0), Lit(1), Call("i0", <<>>), Call("i1", <<>>)}
OrderShapes == {"index", "index2", "call", "indexcall"}
OrderExpr(shape, lhs, e1, e2) ==
    CASE shape = "index" -> Index(lhs, e1)
      [] shape = "index2" -> Index(lhs, Index(e1, e2))
      [] shape = "call" -> Dot(lhs, Call("m", <<e1, e2>>))
      [] shape = "indexcall" -> Index(lhs, Dot(e1, Call("m", <<e2>>)))

OrderInit ==
    /\ scope = <<>>
    /\ engine = OrderEngine
    /\ ast = AST(<<>>, {})
    /\ last = [op |-> "new"]

\* Scope::new and push of a
OrderPush ==
    \E value \in OrderArrays :
        /\ last.op # "push"
        /\ scope' = push(<<>>, "a", value)
        /\ last' = [op |-> "push"]
        /\ UNCHANGED <<engine, ast>>

OrderRan(shape, lhs, e1, e2, e) ==
    /\ scope' = e.m.scope
    /\ last' = [op |-> "eval", shape |-> shape, lhs |-> lhs,
                es |-> IF shape = "index" THEN <<e1>> ELSE <<e1, e2>>,
                r |-> e.r, out |-> e.m.out]
\* Engine::eval_with_scope of the chain
OrderEval ==
    \E shape \in OrderShapes, lhs \in OrderRoots, e1, e2 \in OrderIndexes :
        /\ last.op = "push"
        /\ OrderRan(shape, lhs, e1, e2,
                    Eval(parse(<<Expr(OrderExpr(shape, lhs, e1, e2))>>, {}), scope))
        /\ UNCHANGED <<engine, ast>>

OrderNext == OrderPush \/ OrderEval
SpecOrder == OrderInit /\ [][OrderNext]_vars

\* The calls of mk, i0 and i1 in the order they ran.
OrderEffects ==
    LET ran == SelectSeq(last.out, LAMBDA e : e.ev = "native" /\ e.name \in {"mk", "i0", "i1"})
    IN  [j \in 1..Len(ran) |-> ran[j].name]
\* The calls of mk, i0 and i1 in the order the chain is written in.
OrderWritten ==
    LET all == <<last.lhs>> \o last.es
        calls == SelectSeq(all, LAMBDA x : x.k = "FnCall")
    IN  [j \in 1..Len(calls) |-> calls[j].id]

\* C18: in a dot/index chain every sub-expression with a side effect is
\* evaluated once and in the order of the source: the left-hand expression,
\* when it is no plain variable, before the first index or argument list, and
\* each index or argument list before those to its right.
C18_SourceOrder ==
    last.op = "eval" => OrderEffects = OrderWritten

(***************************************************************************)
(* A map and a key it does not hold, over SpecChain: `x.q` and `x.q = v`   *)
(* on the maps of ChainShapes, whose only key is p.                        *)
(***************************************************************************)
ChainAbsentKey ==
    /\ last.op \in {"read", "assign"}
    /\ last.op = "assign" => ChainRoot.typ = Normal
    /\ Len(last.steps) = 1 /\ last.steps[1].s = "field"
    /\ ChainRoot.value.t = "map"
    /\ <<last.steps[1].key>> \notin DOMAIN ChainRoot.value.m

\* C19: reading a map with a string key it does not hold gives the unit value
\* and leaves the map's keys as they were; a terminal write to such a key
\* inserts it.
C19_AbsentKeyReadsUnit ==
    ChainAbsentKey =>
        IF last.op = "read"
        THEN last.r = Ok(VUnit) /\ scope = last.before
        ELSE /\ last.r = Ok(VUnit)
             /\ DOMAIN last.wrote[1].value.m =
                    DOMAIN ChainRoot.value.m \cup {<<last.steps[1].key>>}
             /\ last.wrote[1].value.m[<<last.steps[1].key>>] = last.v

(***************************************************************************)
(* A nested chain through a property of a host object.  The host has the   *)
(* types Outer { p: Inner } and Inner { q: i64 }, the accessors get$q and  *)
(* set$q and the method setq(&mut Inner, i64) on Inner, and registers for  *)
(* Outer, in any order, get$p, set$p and a mutable getter of p.  The       *)
(* scripts are x.p.q, x.p.q = v and x.p.setq(v) on x = Outer { p: { q } }. *)
(***************************************************************************)
MaxQ == 3
NewOuter(q) == VObj("Outer", [p |-> NewInner(q)])
NestedEngine ==
    LET e1 == register_fn(Engine_new, make_getter("q"), <<"Inner">>, FnGetter("q"))
        e2 == register_fn(e1, make_setter("q"), <<"Inner", "i64">>, FnSetter("q"))
    IN  register_fn(e2, "setq", <<"Inner", "i64">>, FnSetter("q"))
NestedShapes == {"read", "write", "call"}
NestedExpr(shape, v) ==
    CASE shape = "read" -> Dot(Var("x"), Dot(Property("p"), Property("q")))
      [] shape = "write" ->
           Assignment(Dot(Var("x"), Dot(Property("p"), Property("q"))), Lit(v))
      [] shape = "call" -> Dot(Var("x"), Dot(Property("p"), Call("setq", <<Lit(v)>>)))

NestedInit ==
    /\ scope = <<>>
    /\ engine = NestedEngine
    /\ ast = AST(<<>>, {})
    /\ last = [op |-> "new"]

\* engine.register_get("p", ..), register_set("p", ..), register_get_mut("p", ..)
NestedRegister ==
    /\ \/ engine' = register_fn(engine, make_getter("p"), <<"Outer">>, FnGetter("p"))
       \/ engine' = register_fn(engine, make_setter("p"), <<"Outer", "Inner">>, FnSetter("p"))
       \/ engine' = register_get_mut(engine, "p", "Outer")
    /\ last' = [op |-> "register"]
    /\ UNCHANGED <<scope, ast>>

\* Scope::new and push of x
NestedPush ==
    \E q \in 1..MaxQ :
        /\ last.op # "push"
        /\ scope' = push(<<>>, "x", NewOuter(q))
        /\ last' = [op |-> "push"]
        /\ UNCHANGED <<engine, ast>>

NestedRan(shape, v, e) ==
    /\ scope' = e.m.scope
    /\ last' = [op |-> "eval", shape |-> shape, v |-> v, before |-> scope, r |-> e.r,
                out |-> e.m.out]
\* Engine::eval_with_scope of the chain
NestedEval ==
    \E shape \in NestedShapes, v \in 1..MaxQ :
        /\ last.op = "push"
        /\ NestedRan(shape, v, Eval(parse(<<Expr(NestedExpr(shape, v))>>, {}), scope))
        /\ UNCHANGED <<engine, ast>>

NestedNext == NestedRegister \/ NestedPush \/ NestedEval
SpecNested == NestedInit /\ [][NestedNext]_vars

\* The host has registered both accessors of p.
NestedAccessors ==
    /\ contains_key(engine.functions, calc_fn_hash(make_getter("p"), <<"Outer">>))
    /\ contains_key(engine.functions, calc_fn_hash(make_setter("p"), <<"Outer", "Inner">>))
\* How many times set$p ran.
NestedWriteBacks ==
    Cardinality({j \in 1..Len(last.out) :
                    last.out[j].ev = "native" /\ last.out[j].name = make_setter("p")})

\* C20: for `x.p.<rest>` on a host object x with the accessors of p, set$p is
\* called on x exactly when <rest> is a function call or a terminal write and
\* never for a read: `x.p.q` gives q and leaves x as it was, and after
\* `x.p.q = v` and after `x.p.setq(v)` the object x holds v in p.q.
C20_WriteBack ==
    last.op = "eval" /\ NestedAccessors =>
        IF last.shape = "read"
        THEN /\ last.r = Ok(last.before[1].value.f.p.f.q)
             /\ NestedWriteBacks = 0
             /\ scope = last.before
        ELSE /\ last.r = Ok(VUnit)
             /\ NestedWriteBacks = 1
             /\ scope[1].value = NewOuter(last.v)

(***************************************************************************)
(* The for statement.  The host makes a Scope, empty or holding x = 3, and *)
(* has the engine evaluate `for i in [items] { body }` on it, the body     *)
(* drawn from ForStmts.                                                    *)
(***************************************************************************)
MaxForLen == 2
ForItems == {<<>>, <<Lit(1)>>, <<Lit(1), Lit(2)>>}
ForStmts ==
    {Expr(Var("i")), Let("y", Some(Var("i"))), Break, Continue,
     ReturnWithVal(None, "Exception"), Expr(Assignment(Var("x"), Var("i")))}
ForBodies == UNION {[1..n -> ForStmts] : n \in 0..MaxForLen}

ForInit ==
    /\ scope = <<>>
    /\ engine = Engine_new
    /\ ast = AST(<<>>, {})
    /\ last = [op |-> "new"]

\* Scope::new, and push for the host's x
ForPush ==
    /\ last.op # "push"
    /\ \/ scope' = <<>>
       \/ scope' = push(<<>>, "x", VInt(3))
    /\ last' = [op |-> "push"]
    /\ UNCHANGED <<engine, ast>>

ForRan(items, body, e) ==
    /\ scope' = e.m.scope
    /\ last' = [op |-> "for", items |-> items, body |-> body, before |-> scope, r |-> e.r]
\* Engine::eval_with_scope of `for i in [items] { body }`
ForEval ==
    \E items \in ForItems, body \in ForBodies :
        /\ last.op = "push"
        /\ ForRan(items, body,
                  Eval(parse(<<For("i", Array(items), Block(body))>>, {}), scope))
        /\ UNCHANGED <<engine, ast>>

ForNext == ForPush \/ ForEval
SpecFor == ForInit /\ [][ForNext]_vars

\* C21: the scope is as long after a for statement as before it, whether the
\* statement ended by itself, by a break or by an error of its body.
C21_ForKeepsLength ==
    last.op = "for" => Len(scope) = Len(last.before)

\* C22: the optimizer does not hoist a `let` out of its block: after the
\* optimized script has run, the y that only the block `{ let y = 1 + 2; }`
\* declares is not in the caller's scope.
C22_LetStaysInBlock ==
    last.op = "eval" /\ engine.optimization_level # "None" =>
        \A j \in 1..Len(scope) : scope[j].name # "y"

(***************************************************************************)
(* Constant propagation.  The scripts declare the constant K, declare a    *)
(* variable K and read K, at the top level and inside a block, on a scope  *)
(* that is empty or holds a constant or a variable K of the host.  As in   *)
(* SpecOpt the script is run as parsed and as optimized.                   *)
(***************************************************************************)
MaxPropLen == 3
PropStmts ==
    {Const("K", Lit(3)),
     Let("K", Some(Lit(4))),
     Expr(Var("K")),
     Block(<<Const("K", Lit(3)), Expr(Var("K"))>>),
     Block(<<Const("K", Lit(3)), Let("K", Some(Lit(4))), Expr(Var("K"))>>),
     Block(<<Let("K", Some(Lit(4))), Expr(Var("K"))>>)}
PropScripts == UNION {[1..n -> PropStmts] : n \in 1..MaxPropLen}
PropScopes ==
    {<<>>, push(<<>>, "K", VInt(10)), push_constant(<<>>, "K", VInt(7))}

\* Scope::new, and push or push_constant
PropPush ==
    \E sc \in PropScopes :
        /\ last.op \in {"level", "eval"}
        /\ scope' = sc
        /\ last' = [op |-> "push"]
        /\ UNCHANGED <<engine, ast>>

\* Engine::eval_with_scope
PropEval ==
    \E script \in PropScripts :
        /\ last.op = "push"
        /\ OptParsed(script, parse(script, {}).statements)
        /\ UNCHANGED <<engine, ast>>

PropNext == OptSetLevel \/ PropPush \/ PropEval
SpecProp == OptInit /\ [][PropNext]_vars

\* C23: a read of K is replaced by a constant's literal only where the read
\* resolves to that constant when the script runs: whenever the script as
\* parsed gives a value, the optimized script gives that value, also when K is
\* read after a later `let K` or after the block that declared the constant.
C23_ReadResolvesAsAtRunTime ==
    last.op = "eval" /\ last.r0.ok => last.r = last.r0

(***************************************************************************)
(* Writes to a constant declared in a block.  The scripts hold a block     *)
(* that declares `const K = 3` and assigns `K = 4`, alone or after a       *)
(* `let x = 1;`, on a scope that is empty or holds a variable x or K of    *)
(* the host.  As in SpecOpt the script is run as parsed and as optimized.  *)
(***************************************************************************)
MaxWriteLen == 2
WriteK == Expr(Assignment(Var("K"), Lit(4)))
WriteBlocks ==
    {Block(<<Const("K", Lit(3)), WriteK>>),
     Block(<<Const("K", Lit(3)), WriteK, Expr(Var("K"))>>),
     Block(<<Let("y", Some(Lit(2))), Const("K", Lit(3)), WriteK>>)}
WriteStmts == WriteBlocks \cup {Let("x", Some(Lit(1))), Expr(Var("x")), Const("K", Lit(3)), WriteK}
WriteScripts == UNION {[1..n -> WriteStmts] : n \in 1..MaxWriteLen}
WriteScopes == {<<>>, push(<<>>, "x", VInt(10)), push(<<>>, "K", VInt(10))}

\* Scope::new, and push
WritePush ==
    \E sc \in WriteScopes :
        /\ last.op \in {"level", "eval"}
        /\ scope' = sc
        /\ last' = [op |-> "push"]
        /\ UNCHANGED <<engine, ast>>

\* Engine::eval_with_scope
WriteEval ==
    \E script \in WriteScripts :
        /\ last.op = "push"
        /\ OptParsed(script, parse(script, {}).statements)
        /\ UNCHANGED <<engine, ast>>

WriteNext == OptSetLevel \/ WritePush \/ WriteEval
SpecWrite == OptInit /\ [][WriteNext]_vars

\* The first statement that can fail is a block that assigns to its constant.
WriteToConstant ==
    \/ last.script[1] \in WriteBlocks
    \/ Len(last.script) = 2 /\ last.script[1] = Let("x", Some(Lit(1)))
          /\ last.script[2] \in WriteBlocks
\* The entries the host pushed, as they are after the run.
WriteHostEntries == SubSeq(scope, 1, Len(last.before))

\* C24: a script optimized at level Simple that assigns to a constant declared
\* in the same block fails with AssignmentToConstant, and the entries of the
\* caller's scope are as they were: nothing is written to another K or to
\* another slot.
C24_ConstantWriteFails ==
    last.op = "eval" /\ engine.optimization_level = "Simple" /\ WriteToConstant =>
        /\ last.r = Err(EvalAltResult("ErrorAssignmentToConstant", <<"K">>))
        /\ WriteHostEntries = last.before

\* C25: the optimizer's pass loop ends: for every script a pass completes
\* without setting the dirty flag, after which optimize returns the tree.
C25_PassLoopTerminates == last.op = "eval" => last.done
\* A script that needed three passes or more before a pass left the flag clear.
C25_Witness == last.op = "eval" /\ last.done /\ last.passes >= 3

(***************************************************************************)
(* Eager calls.  The host registers functions of one i64 under the names   *)
(* f (returns 7), g (returns an error) and print, sets the optimization    *)
(* level and compiles a one-call script, with or without a script function *)
(* named f.  The state of the optimizer keeps, for every call it took for  *)
(* an eager one, what it did with it.                                      *)
(***************************************************************************)
EagerNatives == {<<"f", FnTag(7)>>, <<"g", FnFail>>, <<KEYWORD_PRINT, FnTag(1)>>}
EagerNames == {"f", "g", "h", KEYWORD_PRINT, KEYWORD_EVAL, KEYWORD_TYPE_OF, "+"}
EagerArgs ==
    {<<Lit(1)>>, <<Var("x")>>, <<Call("f", <<Lit(1)>>)>>, <<Lit(1), Lit(2)>>, <<Var("K")>>}
EagerDefaults == {None, Some(VInt(9))}
EagerLibs == {{}, {<<"f", 1>>}, {<<"f", 2>>}}
EagerScript(id, args, def) == <<Const("K", Lit(3)), Expr(FnCall(id, args, def))>>

EagerInit ==
    /\ scope = <<>>
    /\ engine = Engine_new
    /\ ast = AST(<<>>, {})
    /\ last = [op |-> "new"]

\* engine.register_fn and register_result_fn
EagerRegister ==
    \E n \in EagerNatives :
        /\ last.op \in {"new", "register"}
        /\ engine' = register_fn(engine, n[1], <<"i64">>, n[2])
        /\ last' = [op |-> "register"]
        /\ UNCHANGED <<scope, ast>>

\* Engine::set_optimization_level
EagerSetLevel ==
    \E level \in OptLevels :
        /\ last.op \in {"new", "register"}
        /\ engine' = set_optimization_level(engine, level)
        /\ last' = [op |-> "level"]
        /\ UNCHANGED <<scope, ast>>

EagerCompiled(id, fn_lib, optimized) ==
    last' = [op |-> "compile", id |-> id, fn_lib |-> fn_lib, tree |-> optimized.x,
             eager |-> optimized.eager]
\* Engine::compile: the statements go through optimize with the script's
\* functions as (name, arity) pairs.
EagerCompile ==
    \E id \in EagerNames, args \in EagerArgs, def \in EagerDefaults, fn_lib \in EagerLibs :
        /\ last.op = "level"
        /\ EagerCompiled(id, fn_lib,
                         optimize(parse(EagerScript(id, args, def), {}).statements, engine,
                                  scope, fn_lib, engine.optimization_level))
        /\ UNCHANGED <<scope, engine, ast>>

EagerNext == EagerRegister \/ EagerSetLevel \/ EagerCompile
SpecEager == EagerInit /\ [][EagerNext]_vars

\* The call was replaced by a literal.
EagerSubstituted(c) == c.out.k # "FnCall"

LogicLeft == {ETrue, EFalse, Lit(5), Var("x"), Call("==", <<Var("x"), Var("x")>>)}
LogicRight ==
    {ETrue, EFalse, Lit(5), Var("x"), Var("z"), Call("==", <<Lit(1), Lit(1)>>),
     Call("==", <<Lit(1), Lit(2)>>), Call("+", <<Lit(1), Lit(2)>>)}
LogicScopes ==
    {push(<<>>, "x", VBool(TRUE)), push(<<>>, "x", VBool(FALSE)), push(<<>>, "x", VInt(5))}

\* Scope::new and push of x
LogicPush ==
    \E sc \in LogicScopes :
        /\ last.op \in {"level", "eval"}
        /\ scope' = sc
        /\ last' = [op |-> "push"]
        /\ UNCHANGED <<engine, ast>>

LogicRan(is_or, a, b, ra, rb, e) ==
    /\ scope' = e.m.scope
    /\ last' = [op |-> "eval", is_or |-> is_or, a |-> a, b |-> b, ra |-> ra, rb |-> rb,
                r |-> e.r, out |-> e.m.out]
\* Engine::eval_with_scope of `a && b` or `a || b`, with what evaluating each
\* operand by itself on the scope gives.
LogicEval ==
    \E is_or \in BOOLEAN, a \in LogicLeft, b \in LogicRight :
        /\ last.op = "push"
        /\ LogicRan(is_or, a, b,
                    OptRun(parse(<<Expr(a)>>, {}).statements, scope),
                    OptRun(parse(<<Expr(b)>>, {}).statements, scope),
                    OptRun(optimize(parse(<<Expr(IF is_or THEN Or(a, b) ELSE And(a, b))>>,
                                          {}).statements,
                                    engine, scope, {}, engine.optimization_level).x,
                           scope))
        /\ UNCHANGED <<engine, ast>>

LogicNext == OptSetLevel \/ LogicPush \/ LogicEval
SpecLogic == OptInit /\ [][LogicNext]_vars

LogicMismatch == Err(EvalAltResult("ErrorBooleanArgMismatch", <<IF last.is_or THEN "OR" ELSE "AND">>))
\* The left operand decides: false for &&, true for ||.
LogicDecided == last.ra.r.ok /\ last.ra.r.v = VBool(last.is_or)

\* C27: `a && b` with a false and `a || b` with a true give a's value and b is
\* not evaluated, so that nothing b does or fails with is seen; an operand that
\* is evaluated and is no bool makes the expression fail with
\* BooleanArgMismatch; otherwise the value is b's.
C27_ShortCircuit ==
    last.op = "eval" =>
        IF ~last.ra.r.ok THEN last.r = last.ra.r /\ last.out = last.ra.m.out
        ELSE IF ~IsSome(as_bool(last.ra.r.v))
        THEN last.r = LogicMismatch /\ last.out = last.ra.m.out
        ELSE IF LogicDecided
        THEN last.r = Ok(VBool(last.is_or)) /\ last.out = last.ra.m.out
        ELSE /\ last.out = last.ra.m.out \o last.rb.m.out
             /\ IF ~last.rb.r.ok THEN last.r = last.rb.r
                ELSE IF ~IsSome(as_bool(last.rb.r.v)) THEN last.r = LogicMismatch
                ELSE last.r = last.rb.r

(***************************************************************************)
(* Cached offsets.  The host sets the level, pushes x or nothing and       *)
(* evaluates a script of up to MaxCachedLen statements, at the top level   *)
(* or as one block: declarations of x and K, reads and writes of them, a   *)
(* nested block, a for loop over x, a call of the script function f and a  *)
(* call of eval.  The machine remembers whether a cached offset ever named *)
(* another position than the search by name.                               *)
(***************************************************************************)
MaxCachedLen == 3
CachedFns ==
    {FnDef("f", <<"n">>,
           Block(<<Let("t", Some(Var("n"))), Expr(Call("+", <<Var("t"), Var("n")>>))>>))}
CachedFor == For("i", Array(<<Lit(1)>>), Block(<<Expr(Assignment(Var("x"), Var("i")))>>))
CachedStmts ==
    {Let("x", Some(Lit(10))), Const("K", Lit(3)), EvalCall, EvalInner, EvalReadX, WriteK,
     CachedFor, Expr(Call("f", <<Var("x")>>)), Block(<<EvalInner, EvalReadX>>)}
CachedBodies == UNION {[1..n -> CachedStmts] : n \in 1..MaxCachedLen}

\* Scope::new, and push for the host's x
CachedPush ==
    /\ last.op \in {"level", "eval"}
    /\ \/ scope' = <<>>
       \/ scope' = push(<<>>, "x", VInt(3))
    /\ last' = [op |-> "push"]
    /\ UNCHANGED <<engine, ast>>

CachedRan(body, in_block, e) ==
    /\ scope' = e.m.scope
    /\ last' = [op |-> "eval", body |-> body, in_block |-> in_block, before |-> scope,
                r |-> e.r, stale |-> e.m.stale]
CachedRun(tree, sc) ==
    eval_ast_with_scope_raw(engine, tree.fn_lib, tree.statements,
                            [Machine(sc) EXCEPT !.fuel = MaxFuel])
CachedParsed(body, in_block, parsed) ==
    CachedRan(body, in_block,
              CachedRun(optimize_into_ast(engine, scope, parsed.statements, parsed.fn_lib,
                                          engine.optimization_level),
                        scope))
\* Engine::eval_with_scope of the statements or of `{ statements }`
CachedEval ==
    \E body \in CachedBodies, in_block \in BOOLEAN :
        /\ last.op = "push"
        /\ CachedParsed(body, in_block,
                        parse(IF in_block THEN <<Block(body)>> ELSE body, CachedFns))
        /\ UNCHANGED <<engine, ast>>

CachedNext == OptSetLevel \/ CachedPush \/ CachedEval
SpecCached == OptInit /\ [][CachedNext]_vars

\* C28: every variable that the evaluator resolved through a cached offset
\* was at that offset: the position was inside the scope and held the newest
\* entry of the variable's name.
C28_CachedOffsetHolds == last.op = "eval" => ~last.stale

(***************************************************************************)
(* intern.rs.  The interner is one value for the whole process, behind a   *)
(* read-write lock.  In the specification of the interner the variable     *)
(* engine holds the Interner (with the thread that holds the write lock),  *)
(* scope the bag of live handles, ast what each thread is doing, and last  *)
(* the step taken last.  A handle is the id of its slot; the model keeps   *)
(* with it the string it was made from.  Slot i of the Vec is strings[i+1].*)
(* Every operation takes the write lock first and holds it to its end;     *)
(* its reads and writes of the slot are steps of their own.                *)
(***************************************************************************)
MaxThreads == 2
MaxHandles == 3
KEYWORD_LET == 7

Keywords ==
    <<"print", "debug", "type_of", "eval", "true", "false", "let", "const", "if", "else",
      "while", "loop", "continue", "break", "return", "throw", "for", "in", "fn">>
InternStrings == {"let", "a", "b"}
Threads == 1..MaxThreads

Occupied(refs, data) == [occ |-> TRUE, refs |-> refs, data |-> data]
Vacant(next) == [occ |-> FALSE, next |-> next]
Str(idx, from) == [id |-> idx, from |-> from]

\* HashMap::get, insert and remove on dedup_map
dedup_get_none(map, string) == None
dedup_get(map, string) == IF string \in DOMAIN map THEN Some(map[string]) ELSE None
dedup_insert(map, string, idx) ==
    [k \in DOMAIN map \cup {string} |-> IF k = string THEN idx ELSE map[k]]
dedup_remove(map, string) == [k \in DOMAIN map \ {string} |-> map[k]]

\* Interner::new: the dummy entry, then the keywords with one reference each.
Interner_new ==
    [strings |-> <<Vacant(None)>> \o [i \in 1..Len(Keywords) |-> Occupied(1, Keywords[i])],
     vacant_head |-> None,
     dedup_map |-> [s \in {Keywords[i] : i \in 1..Len(Keywords)} |->
                       CHOOSE i \in 1..Len(Keywords) : Keywords[i] = s],
     writer |-> 0, poisoned |-> FALSE]

\* INTERNER.write(): the lock is given when no thread holds it.
write_any(self) == TRUE
write(self) == self.writer = 0
\* The guard goes out of scope, or the thread panics with it.
unlock(self) == [self EXCEPT !.writer = 0]
poison(self) == [self EXCEPT !.writer = 0, !.poisoned = TRUE]

Idle == [pc |-> "idle"]
Panicked == [pc |-> "panicked"]
\* The handles that exist or are about to: the live ones and those a thread
\* will return.
InternBudget ==
    BagCardinality(scope) + Cardinality({t \in Threads : ast[t].pc \in {"intern", "insert", "clone"}})

InternInit ==
    /\ engine = Interner_new
    /\ scope = EmptyBag
    /\ ast = [t \in Threads |-> Idle]
    /\ last = [op |-> "new"]

\* A thread gets the write lock, or panics on a poisoned one.
Locked(t, pc) ==
    IF engine.poisoned
    THEN ast' = [ast EXCEPT ![t] = Panicked] /\ UNCHANGED engine
    ELSE ast' = [ast EXCEPT ![t] = pc] /\ engine' = [engine EXCEPT !.writer = t]

\* intern_string(string): the lock
InternLock(t) ==
    \E string \in InternStrings :
        /\ ast[t] = Idle /\ write(engine)
        /\ InternBudget < MaxHandles
        /\ Locked(t, [pc |-> "intern", string |-> string])
        /\ last' = [op |-> "lock", t |-> t]
        /\ UNCHANGED scope

\* intern_string: the string is in dedup_map, its slot gets one more reference;
\* else the entry is to be stored.
InternGet(t) ==
    /\ ast[t].pc = "intern"
    /\ LET string == ast[t].string
           idx == dedup_get(engine.dedup_map, string)
       IN  IF IsSome(idx)
           THEN IF engine.strings[idx[1] + 1].occ
                THEN /\ engine' = unlock([engine EXCEPT !.strings[idx[1] + 1].refs = @ + 1])
                     /\ scope' = scope (+) SetToBag({Str(idx[1], string)})
                     /\ ast' = [ast EXCEPT ![t] = Idle]
                     /\ last' = [op |-> "intern", t |-> t, id |-> idx[1], reused |-> FALSE]
                ELSE /\ engine' = poison(engine)
                     /\ ast' = [ast EXCEPT ![t] = Panicked]
                     /\ last' = [op |-> "panic", t |-> t]
                     /\ UNCHANGED scope
           ELSE /\ ast' = [ast EXCEPT ![t] = [pc |-> "insert", string |-> string]]
                /\ last' = [op |-> "get", t |-> t]
                /\ UNCHANGED <<engine, scope>>

\* intern_string: the new entry goes to the head of the vacancy list, or to
\* the end of the Vec when there is no vacancy.
InternInsert(t) ==
    /\ ast[t].pc = "insert"
    /\ LET string == ast[t].string
           entry == Occupied(1, string)
           vacancy == engine.vacant_head
           next == Len(engine.strings)
       IN  IF IsSome(vacancy)
           THEN IF ~engine.strings[vacancy[1] + 1].occ
                THEN /\ engine' = unlock([engine EXCEPT
                            !.dedup_map = dedup_insert(@, string, vacancy[1]),
                            !.strings[vacancy[1] + 1] = entry,
                            !.vacant_head = engine.strings[vacancy[1] + 1].next])
                     /\ scope' = scope (+) SetToBag({Str(vacancy[1], string)})
                     /\ ast' = [ast EXCEPT ![t] = Idle]
                     /\ last' = [op |-> "intern", t |-> t, id |-> vacancy[1], reused |-> TRUE]
                ELSE /\ engine' = poison([engine EXCEPT
                            !.dedup_map = dedup_insert(@, string, vacancy[1]),
                            !.strings[vacancy[1] + 1] = entry])
                     /\ ast' = [ast EXCEPT ![t] = Panicked]
                     /\ last' = [op |-> "panic", t |-> t]
                     /\ UNCHANGED scope
           ELSE /\ engine' = unlock([engine EXCEPT
                       !.dedup_map = dedup_insert(@, string, next),
                       !.strings = Append(@, entry)])
                /\ scope' = scope (+) SetToBag({Str(next, string)})
                /\ ast' = [ast EXCEPT ![t] = Idle]
                /\ last' = [op |-> "intern", t |-> t, id |-> next, reused |-> FALSE]

\* Str::clone: the lock, on a live handle
CloneLock(t) ==
    \E h \in BagToSet(scope) :
        /\ ast[t] = Idle /\ write(engine)
        /\ InternBudget < MaxHandles
        /\ Locked(t, [pc |-> "clone", h |-> h])
        /\ last' = [op |-> "lock", t |-> t]
        /\ UNCHANGED scope

\* Str::clone: one more reference and a handle of the same id
CloneIncr(t) ==
    /\ ast[t].pc = "clone"
    /\ LET h == ast[t].h
       IN  IF engine.strings[h.id + 1].occ
           THEN /\ engine' = unlock([engine EXCEPT !.strings[h.id + 1].refs = @ + 1])
                /\ scope' = scope (+) SetToBag({h})
                /\ ast' = [ast EXCEPT ![t] = Idle]
                /\ last' = [op |-> "clone", t |-> t, id |-> h.id]
           ELSE /\ engine' = poison(engine)
                /\ ast' = [ast EXCEPT ![t] = Panicked]
                /\ last' = [op |-> "panic", t |-> t]
                /\ UNCHANGED scope

\* A handle that a thread is cloning is borrowed and cannot be dropped.
Borrowed(h) == \E t \in Threads : ast[t].pc = "clone" /\ ast[t].h = h
\* Drop for Str: the lock; the handle is the thread's own from here on
DropLock(t) ==
    \E h \in BagToSet(scope) :
        /\ ast[t] = Idle /\ write(engine)
        /\ CopiesIn(h, scope) > (IF Borrowed(h) THEN 1 ELSE 0)
        /\ scope' = scope (-) SetToBag({h})
        /\ IF engine.poisoned
           THEN ast' = [ast EXCEPT ![t] = Panicked] /\ UNCHANGED engine
           ELSE /\ ast' = [ast EXCEPT ![t] = [pc |-> "drop", h |-> h]]
                /\ engine' = [engine EXCEPT !.writer = t]
        /\ last' = [op |-> "lock", t |-> t]

\* Drop: let v = refs.get()
DropRead(t) ==
    /\ ast[t].pc = "drop"
    /\ LET h == ast[t].h
       IN  IF engine.strings[h.id + 1].occ
           THEN /\ ast' = [ast EXCEPT ![t] = [pc |-> "dropping", h |-> h,
                                            v |-> engine.strings[h.id + 1].refs]]
                /\ last' = [op |-> "read", t |-> t]
                /\ UNCHANGED engine
           ELSE /\ engine' = poison(engine)
                /\ ast' = [ast EXCEPT ![t] = Panicked]
                /\ last' = [op |-> "panic", t |-> t]
    /\ UNCHANGED scope

\* Drop: one reference less, or with the last reference gone the slot becomes
\* the head of the vacancy list and the string leaves dedup_map.
DropWrite(t) ==
    /\ ast[t].pc = "dropping"
    /\ LET h == ast[t].h
           v == ast[t].v
           old_entry == engine.strings[h.id + 1]
       IN  IF v > 1
           THEN /\ engine' = unlock([engine EXCEPT !.strings[h.id + 1] =
                                        IF @.occ THEN [@ EXCEPT !.refs = v - 1] ELSE @])
                /\ ast' = [ast EXCEPT ![t] = Idle]
                /\ last' = [op |-> "drop", t |-> t, id |-> h.id, freed |-> FALSE]
           ELSE IF h.id > Len(Keywords) /\ old_entry.occ
           THEN /\ engine' = unlock([engine EXCEPT
                       !.strings[h.id + 1] = Vacant(engine.vacant_head),
                       !.dedup_map = dedup_remove(@, old_entry.data),
                       !.vacant_head = Some(h.id)])
                /\ ast' = [ast EXCEPT ![t] = Idle]
                /\ last' = [op |-> "drop", t |-> t, id |-> h.id, freed |-> TRUE]
           ELSE /\ engine' = poison(IF h.id > Len(Keywords)
                                    THEN [engine EXCEPT
                                             !.strings[h.id + 1] = Vacant(engine.vacant_head)]
                                    ELSE engine)
                /\ ast' = [ast EXCEPT ![t] = Panicked]
                /\ last' = [op |-> "panic", t |-> t]
    /\ UNCHANGED scope

InternNext ==
    \E t \in Threads :
        \/ InternLock(t) \/ InternGet(t) \/ InternInsert(t)
        \/ CloneLock(t) \/ CloneIncr(t)
        \/ DropLock(t) \/ DropRead(t) \/ DropWrite(t)
SpecIntern == InternInit /\ [][InternNext]_vars

\* The live handles: those in the bag and those whose drop has not yet taken
\* its reference back.
Dropping == {t \in Threads : ast[t].pc \in {"drop", "dropping"}}
LiveHandles == BagToSet(scope) \cup {ast[t].h : t \in Dropping}
LiveCount(idx) ==
    LET of_id == {h \in BagToSet(scope) : h.id = idx}
        counts == [h \in of_id |-> CopiesIn(h, scope)]
    IN  BagCardinality(counts) + Cardinality({t \in Dropping : ast[t].h.id = idx})
Slots == 1..(Len(engine.strings) - 1)

\* C29: two live handles are equal (have the same id) exactly when they were
\* made from equal strings, also in a slot that was vacated and given out
\* again; a keyword has the id of its constant, and "let" has 7.
C29_EqualIffSameString ==
    /\ \A h1, h2 \in LiveHandles : (h1.id = h2.id) <=> (h1.from = h2.from)
    /\ \A h \in LiveHandles :
           /\ \A i \in 1..Len(Keywords) : h.from = Keywords[i] <=> h.id = i
           /\ h.from = "let" => h.id = KEYWORD_LET
\* Slot 20 was vacated and given to another string, next to a handle of "let"
\* and one of the string that had slot 20 first or second.
C29_Witness ==
    /\ last.op = "intern" /\ last.reused
    /\ \E h1, h2, h3 \in BagToSet(scope) :
           /\ h1.from = "let" /\ h1.id = KEYWORD_LET
           /\ h2.from = "b" /\ h2.id = Len(Keywords) + 1
           /\ h3.from = "a" /\ h3.id = Len(Keywords) + 2

\* The vacancy list: the slots from vacant_head along the next fields.
RECURSIVE VacancyWalk(_, _)
VacancyWalk(head, fuel) ==
    IF ~IsSome(head) \/ fuel = 0 THEN <<>>
    ELSE <<head[1]>> \o
         VacancyWalk(IF engine.strings[head[1] + 1].occ THEN None
                     ELSE engine.strings[head[1] + 1].next,
                     fuel - 1)
VacancyList == VacancyWalk(engine.vacant_head, Len(engine.strings))
VacantSlots == {i \in Slots : ~engine.strings[i + 1].occ}

\* C30: under every interleaving of intern, clone and drop by the threads, the
\* reference count of an occupied slot is the number of live handles of its
\* id, plus one for a keyword; a slot is vacant exactly when no handle of its
\* id is live, and a drop vacates it exactly when it took the last one; the
\* keyword slots 1..19 stay occupied by their keywords; no live handle has the
\* id of a vacant slot; the vacancy list holds every vacant slot once and
\* nothing else; and no thread runs into a panic.
C30_CountsMatchHandles ==
    /\ \A i \in Slots :
           engine.strings[i + 1].occ =>
               engine.strings[i + 1].refs =
                   LiveCount(i) + (IF i <= Len(Keywords) THEN 1 ELSE 0)
    /\ \A i \in Slots : i > Len(Keywords) => (engine.strings[i + 1].occ <=> LiveCount(i) >= 1)
    /\ last.op = "drop" => (last.freed <=> last.id > Len(Keywords) /\ LiveCount(last.id) = 0)
    /\ \A i \in 1..Len(Keywords) :
           engine.strings[i + 1].occ /\ engine.strings[i + 1].data = Keywords[i]
    /\ \A h \in LiveHandles : h.id \in Slots /\ engine.strings[h.id + 1].occ
    /\ Len(VacancyList) = Cardinality(VacantSlots)
    /\ {VacancyList[j] : j \in 1..Len(VacancyList)} = VacantSlots
    /\ \A t \in Threads : ast[t] # Panicked
    /\ ~engine.poisoned
\* The last thread dropped the last handle of a slot while a keyword handle is
\* live, and the vacancy list holds two slots.
C30_Witness ==
    /\ last.op = "drop" /\ last.freed /\ last.t = MaxThreads
    /\ Len(VacancyList) = 2
    /\ LiveCount(KEYWORD_LET) = 1

====
